---- MODULE Spec2Model ----
(***************************************************************************)
(* HubP: the registry relay of the proxy package, in the versions kept in  *)
(* the repository.  One relay (one inbound request) runs at a time; the    *)
(* upstream registry and the token endpoint are the environment.           *)
(*                                                                         *)
(*   impl = "ttl"      src/Dockerfile 51-390     TTL token cache,          *)
(*                                               retryWithToken            *)
(*   impl = "cache"    src/main.go 862-1136      token cache without TTL   *)
(*   impl = "spool"    src/go.mod 16-343         body spooled to a file,   *)
(*                                               fetchWithToken            *)
(*   impl = "bytes"    src/proxy/proxy.go 1-289  body as a byte slice,     *)
(*                                               fetchWithToken            *)
(*   impl = "registry" src/unnamed/part_000      HandleRegistryRequest,    *)
(*                                               challenge rewritten       *)
(*   impl = "stream"   src/unnamed/part_001      body streamed,            *)
(*                                               fetchWithToken,           *)
(*                                               Accept-Encoding kept      *)
(*   impl = "routes"   src/main.go 304-860       the handlers of package   *)
(*                                               main (HandleAuthRequest   *)
(*                                               alone is modelled)        *)
(*                                                                         *)
(* Strings are sequences of atoms, "" is << >>.                            *)
(***************************************************************************)
EXTENDS Integers, Sequences, FiniteSets, TLC

\* ------------------------------------------------------------- bounds
\* The clock runs over 0..MaxTime.
MaxTime == 1

\* tokenTTL = 5 * time.Minute; one clock unit is five minutes.
tokenTTL == 1

\* The challenge values given to parseAuth as text have up to
\* MaxValueLen characters.
MaxValueLen == 2

\* ------------------------------------------------------------ versions
Impls == {"ttl", "cache", "spool", "bytes", "registry", "stream"}

\* The versions that keep the global tokenCache.
HasCache(i) == i \in {"ttl", "cache"}

\* The versions whose cache entries carry an Expiry that lookups test.
HasExpiry(i) == i = "ttl"

\* The versions built around proxyRequest (the others answer from
\* HandleRegistryRequest with a single upstream call).
IsRelay(i) == i \in {"ttl", "cache", "spool", "bytes", "stream"}

\* The versions that run newReq.Header.Del("Accept-Encoding"); in
\* src/unnamed/part_001 the line is commented out.
DeletesAcceptEncoding(i) == i # "stream"

\* ------------------------------------------------------------- strings
Empty == << >>

targetHost == <<"registry-1.docker.io">>

cdnHost == <<"cdn.example">>

proxyService == <<"registry.docker.io">>

\* ------------------------------------------------- WWW-Authenticate
\* A header value is its scheme word and its comma-separated segments;
\* a segment is <<key, value>> (key="value") or <<word>> (no '='); a key
\* is a string, so a sequence of atoms.
NoHeader == [scheme |-> "", params |-> << >>]

Realm1 == <<"https://auth.docker.io/token">>

Service1 == <<"registry.docker.io">>

Service2 == <<"other.registry">>

Scope1 == <<"repository", ":", "library/alpine", ":", "pull">>

\* A service and a scope with the colon between them one place further on.
ColonService == <<"registry.docker.io", ":", "repository">>

ColonScope == <<"library/alpine", ":", "pull">>

Challenge(scheme, params) == [scheme |-> scheme, params |-> params]

\* The challenges of the upstream: none, Bearer challenges with and
\* without realm, service and scope, and challenges of the Basic scheme.
Challenges ==
  { NoHeader,
    Challenge("Bearer", << <<<<"realm">>, Realm1>>,
                           <<<<"service">>, ColonService>>,
                           <<<<"scope">>, ColonScope>> >>),
    Challenge("Basic", << <<<<"realm">>, Realm1>>,
                          <<<<"service">>, Service1>> >>),
    Challenge("Basic", << <<<<"charset">>, <<"UTF-8">>>>,
                          <<<<"realm">>, Realm1>>,
                          <<<<"service">>, Service2>> >>),
    Challenge("Bearer", << <<<<"realm">>, Realm1>>, <<<<"service">>, Service1>>,
                           <<<<"scope">>, Scope1>> >>),
    Challenge("Bearer", << <<<<"realm">>, Realm1>>, << <<"junk">> >>, <<<<"service">>, Service2>> >>),
    Challenge("Bearer", << <<<<"realm">>, Realm1>>, <<<<"scope">>, Scope1>> >>),
    Challenge("Bearer", << <<<<"realm">>, Empty>>, <<<<"service">>, Service1>> >>) }

\* strings.TrimPrefix(header, "Bearer "): any other scheme word stays in
\* front of the first segment and becomes part of its key.
FirstKey(h, key) == IF h.scheme = "Bearer" THEN key ELSE <<h.scheme>> \o key

RECURSIVE parseAuthFrom(_, _, _)
parseAuthFrom(h, n, result) ==
  IF n > Len(h.params) THEN result
  ELSE LET part == h.params[n]
           key == IF n = 1 THEN FirstKey(h, part[1]) ELSE part[1]
       IN IF Len(part) = 2
          THEN parseAuthFrom(h, n + 1,
                 [k \in (DOMAIN result) \cup {key} |->
                    IF k = key THEN part[2] ELSE result[k]])
          ELSE parseAuthFrom(h, n + 1, result)

\* parseAuth: the map of the key="value" segments; segments without '='
\* are skipped.
parseAuth(h) == parseAuthFrom(h, 1, [k \in {} |-> Empty])

\* ........................................ parseAuth on the header text
\* The header as text: a sequence of characters, where a word without
\* separators counts as one character.
\* strings.TrimPrefix(header, "Bearer ")
TrimPrefix(text) ==
  IF text # << >> /\ Head(text) = "Bearer " THEN Tail(text) ELSE text

\* strings.Split(text, sep), cur being the part under way
RECURSIVE Split(_, _, _)
Split(text, sep, cur) ==
  IF text = << >> THEN << cur >>
  ELSE IF Head(text) = sep THEN << cur >> \o Split(Tail(text), sep, << >>)
  ELSE Split(Tail(text), sep, Append(cur, Head(text)))

RECURSIVE TrimLeft(_, _)
TrimLeft(text, c) ==
  IF text # << >> /\ Head(text) = c THEN TrimLeft(Tail(text), c) ELSE text

RECURSIVE TrimRight(_, _)
TrimRight(text, c) ==
  IF text # << >> /\ text[Len(text)] = c
  THEN TrimRight(SubSeq(text, 1, Len(text) - 1), c)
  ELSE text

\* strings.Trim(text, c); strings.TrimSpace is Trim(text, " ")
Trim(text, c) == TrimRight(TrimLeft(text, c), c)

\* strings.SplitN(part, "=", 2)
SplitN2(part) ==
  IF \E i \in 1..Len(part) : part[i] = "="
  THEN LET i == CHOOSE j \in 1..Len(part) :
                  part[j] = "=" /\ \A k \in 1..(j - 1) : part[k] # "="
       IN << SubSeq(part, 1, i - 1), SubSeq(part, i + 1, Len(part)) >>
  ELSE << part >>

\* One part of the split header: <<key, value>> with the key trimmed of
\* spaces and the value of spaces and quotes, or the part itself.
Segment(part) ==
  LET kv == SplitN2(Trim(part, " "))
  IN IF Len(kv) = 2
     THEN << Trim(kv[1], " "), Trim(Trim(kv[2], " "), "\"") >>
     ELSE kv

\* The header text cut as parseAuth cuts it; what TrimPrefix leaves in
\* front stays in the first part.
Segments(text) ==
  LET parts == Split(TrimPrefix(text), ",", << >>)
  IN [scheme |-> "Bearer", params |-> [i \in 1..Len(parts) |-> Segment(parts[i])]]

\* parseAuth(header string)
parseAuthText(text) == parseAuth(Segments(text))

\* key="value"
KeyValue(key, value) == <<key, "=", "\"">> \o value \o <<"\"">>

\* The text Bearer realm="R",service="S"[,scope="C"], with a segment
\* without '=' after the realm when in.junk.
ChallengeText(in) ==
  <<"Bearer ">> \o KeyValue("realm", in.realm) \o <<",">>
    \o (IF in.junk THEN <<"junk", ",">> ELSE << >>)
    \o KeyValue("service", in.service)
    \o (IF in.hasScope THEN <<",">> \o KeyValue("scope", in.scope) ELSE << >>)

\* The characters of a value: a letter, a comma, an equals sign.
ValueChars == {"a", ",", "="}

Values == UNION {[1..n -> ValueChars] : n \in 0..MaxValueLen}

ParseInputs ==
  [realm : Values, service : Values, scope : Values, hasScope : {TRUE},
   junk : BOOLEAN]
  \cup [realm : Values, service : Values, scope : {<< >>}, hasScope : {FALSE},
        junk : BOOLEAN]

NoParseInput ==
  [realm |-> << >>, service |-> << >>, scope |-> << >>, hasScope |-> FALSE,
   junk |-> FALSE]

\* A Go map read: the zero value "" for a missing key.
Get(m, k) == IF k \in DOMAIN m THEN m[k] ELSE Empty

\* fmt.Sprintf("%s:%s:%s", realm, service, scope)
cacheKey(realm, service, scope) == realm \o <<":">> \o service \o <<":">> \o scope

\* A resolvability test that looks at the realm alone.
IncompleteRealmOnly(h) == Get(parseAuth(h), <<"realm">>) = Empty

\* realm == "" || service == ""  (the challenge cannot be resolved)
Incomplete(h) ==
  LET authParams == parseAuth(h)
  IN Get(authParams, <<"realm">>) = Empty \/ Get(authParams, <<"service">>) = Empty

KeyOf(h) ==
  LET authParams == parseAuth(h)
  IN cacheKey(Get(authParams, <<"realm">>), Get(authParams, <<"service">>),
              Get(authParams, <<"scope">>))

\* ------------------------------------------------------------- tokens
NoToken == Empty

Tokens == {<<"t1">>, <<"t2">>}

\* "Bearer " + token
Bearer(tok) == <<"Bearer ">> \o tok

\* The expires_in of the answers that state one, in clock units.
StatedExpiry == 2

\* The answers of the token endpoint: a transport failure, or a status
\* with a body that decodes as JSON or not, with its token and
\* access_token fields ("" when absent) and its expires_in (0 when
\* absent; stated by the answer with a token field alone).
TokenResponses ==
  { [kind |-> "error", status |-> 0, json |-> FALSE, token |-> Empty,
     access_token |-> Empty, expires_in |-> 0],
    [kind |-> "answer", status |-> 403, json |-> TRUE, token |-> <<"t1">>,
     access_token |-> Empty, expires_in |-> 0],
    [kind |-> "answer", status |-> 200, json |-> FALSE, token |-> Empty,
     access_token |-> Empty, expires_in |-> 0] }
  \cup
  { [kind |-> "answer", status |-> 200, json |-> TRUE, token |-> t,
     access_token |-> a,
     expires_in |-> IF t # Empty /\ a = Empty THEN StatedExpiry ELSE 0] :
      t \in {Empty, <<"t1">>}, a \in {Empty, <<"t2">>} }

\* A fetchToken that decodes the body whatever the status.
fetchTokenAnyStatus(tr) ==
  IF tr.kind = "error" \/ ~tr.json THEN Empty
  ELSE IF tr.token # Empty THEN tr.token
  ELSE tr.access_token

\* fetchToken after client.Get: the token, or "" for every error return.
fetchToken(tr) ==
  IF tr.kind = "error" THEN NoToken
  ELSE IF tr.status # 200 THEN NoToken
  ELSE IF ~tr.json THEN NoToken
  ELSE IF tr.token # Empty THEN tr.token
  ELSE IF tr.access_token # Empty THEN tr.access_token
  ELSE NoToken

\* ---------------------------------------------------------------- URLs
\* A URL is its scheme, host, path and raw query; as text it is the
\* sequence scheme, ":", "//", host, path, "?", query with the empty
\* parts left out.
URL(scheme, host, path, query) ==
  [scheme |-> scheme, host |-> host, path |-> path, query |-> query]

NoURL == URL(Empty, Empty, Empty, Empty)

\* Location header values: absent, an absolute path with a query, an
\* absolute URL, a reference that names a host but no scheme,
\* unparseable.
NoLocation == Empty

RelLocation == <<"/v2/blob", "?", "redirect=1">>

AbsLocation == <<"https", ":", "//", "cdn.example", "/blob">>

NetLocation == <<"//", "cdn.example", "/blob">>

BadLocation == <<"%zz">>

Locations == {NoLocation, RelLocation, AbsLocation, NetLocation, BadLocation}

\* A parser that takes every Location.
ParseTakesAll(location) == FALSE

\* url.Parse fails
ParseFails(location) == location = BadLocation

\* url.Parse: the scheme up to ':', the host after "//", the path, the
\* query after '?'.
Parse(location) ==
  LET hasScheme == Len(location) >= 2 /\ location[2] = ":"
      afterScheme == IF hasScheme THEN SubSeq(location, 3, Len(location))
                     ELSE location
      hasHost == Len(afterScheme) >= 2 /\ Head(afterScheme) = "//"
      afterHost == IF hasHost THEN SubSeq(afterScheme, 3, Len(afterScheme))
                   ELSE afterScheme
      hasPath == afterHost # << >> /\ Head(afterHost) # "?"
      afterPath == IF hasPath THEN Tail(afterHost) ELSE afterHost
  IN URL(IF hasScheme THEN <<Head(location)>> ELSE Empty,
         IF hasHost THEN <<afterScheme[2]>> ELSE Empty,
         IF hasPath THEN <<Head(afterHost)>> ELSE Empty,
         IF Len(afterPath) = 2 THEN <<afterPath[2]>> ELSE Empty)

\* u.String()
String(u) ==
  (IF u.scheme # Empty THEN u.scheme \o <<":">> ELSE << >>)
    \o (IF u.host # Empty THEN <<"//">> \o u.host ELSE << >>)
    \o u.path
    \o (IF u.query # Empty THEN <<"?">> \o u.query ELSE << >>)

\* A resolution against the registry instead of the base.
ResolveAgainstRegistry(baseURL, redirectURL) ==
  IF redirectURL.scheme # Empty THEN redirectURL
  ELSE IF redirectURL.host # Empty
  THEN [redirectURL EXCEPT !.scheme = baseURL.scheme]
  ELSE URL(<<"https">>, targetHost, redirectURL.path, redirectURL.query)

\* baseURL.ResolveReference(redirectURL), for references with an
\* absolute path: a reference with a scheme is the result; one with a
\* host takes the scheme of the base; the others take its scheme and host.
ResolveReference(baseURL, redirectURL) ==
  IF redirectURL.scheme # Empty THEN redirectURL
  ELSE IF redirectURL.host # Empty
  THEN [redirectURL EXCEPT !.scheme = baseURL.scheme]
  ELSE URL(baseURL.scheme, baseURL.host, redirectURL.path, redirectURL.query)

\* ------------------------------------------------------------ requests
Methods == {"GET", "HEAD", "POST"}

InboundPath == <<"/v2/library/alpine/manifests/latest">>

\* Paths as the caller sends them, with an escaped slash and with an
\* escaped space.
SlashPath == <<"/v2/library", "%2F", "alpine/manifests/latest">>

SpacePath == <<"/v2/my", "%20", "repo/manifests/latest">>

\* The unescaping of the request path by the server: r.URL.Path.
RECURSIVE Unescape(_)
Unescape(text) ==
  IF text = << >> THEN << >>
  ELSE << CASE Head(text) = "%2F" -> "/"
            [] Head(text) = "%20" -> " "
            [] OTHER -> Head(text) >> \o Unescape(Tail(text))

\* The path of url.URL{Path: path}.String(): what has to be escaped in a
\* path is escaped, a slash is not.
RECURSIVE EscapedPath(_)
EscapedPath(path) ==
  IF path = << >> THEN << >>
  ELSE << IF Head(path) = " " THEN "%20" ELSE Head(path) >>
         \o EscapedPath(Tail(path))

\* targetURL := &url.URL{Scheme: "https", Host: targetHost,
\*                       Path: r.URL.Path, RawQuery: r.URL.RawQuery}
FirstTarget(rq) ==
  URL(<<"https">>, targetHost, EscapedPath(Unescape(rq.escapedPath)),
      rq.rawQuery)

\* r.URL.RawQuery of the requests that come with a query.
InboundQuery == <<"n=10">>

\* The inbound requests: method, path as sent, raw query, body bytes,
\* declared Content-Length (-1: chunked), Host, and the values of the
\* Authorization, Accept-Encoding and Accept headers in the order received.
Inbounds ==
  { [method |-> "GET", escapedPath |-> InboundPath, rawQuery |-> InboundQuery,
     body |-> Empty, contentLength |-> 0,
     host |-> <<"hubp.example">>, authorization |-> << >>,
     acceptEncoding |-> << <<"gzip">> >>,
     accept |-> << <<"manifest.v2">>, <<"manifest.list">> >>],
    [method |-> "GET", escapedPath |-> InboundPath, rawQuery |-> Empty,
     body |-> <<1, 2>>, contentLength |-> 2,
     host |-> <<"hubp.example">>, authorization |-> << >>,
     acceptEncoding |-> << >>, accept |-> << >>],
    [method |-> "HEAD", escapedPath |-> SlashPath, rawQuery |-> Empty,
     body |-> Empty, contentLength |-> 0,
     host |-> <<"hubp.example">>, authorization |-> << <<"Basic ", "u">> >>,
     acceptEncoding |-> << >>, accept |-> << >>],
    [method |-> "POST", escapedPath |-> SpacePath, rawQuery |-> InboundQuery,
     body |-> <<1, 2>>, contentLength |-> 2,
     host |-> <<"mirror.example">>, authorization |-> << >>,
     acceptEncoding |-> << >>, accept |-> << <<"manifest.v2">> >>],
    [method |-> "POST", escapedPath |-> InboundPath, rawQuery |-> Empty,
     body |-> <<1, 2>>, contentLength |-> -1,
     host |-> <<"hubp.example">>, authorization |-> << >>,
     acceptEncoding |-> << <<"gzip">>, <<"br">> >>, accept |-> << >>],
    [method |-> "POST", escapedPath |-> InboundPath, rawQuery |-> Empty,
     body |-> Empty, contentLength |-> 0,
     host |-> <<"hubp.example">>,
     authorization |-> << <<"Basic ", "u">>, <<"Bearer ", "mine">> >>,
     acceptEncoding |-> << >>,
     accept |-> << <<"manifest.list">>, <<"manifest.v2">> >>] }

NoInbound ==
  [method |-> "", escapedPath |-> Empty, rawQuery |-> Empty, body |-> Empty, contentLength |-> 0, host |-> Empty,
   authorization |-> << >>, acceptEncoding |-> << >>, accept |-> << >>]

\* r.Body: the bytes not yet read, and whether the body was closed.
Stream(left, closed) == [left |-> left, closed |-> closed]

NoReq ==
  [url |-> NoURL, host |-> Empty, method |-> "", authorization |-> << >>,
   acceptEncoding |-> << >>, accept |-> << >>,
   body |-> Empty, contentLength |-> 0, bodyError |-> FALSE]

\* A token added after the inbound values instead of set over them.
AuthorizationAdd(rq, tok) ==
  IF tok # Empty THEN Append(rq.authorization, <<"Bearer ">> \o tok)
  ELSE rq.authorization

\* The Authorization values of an outbound request: the inbound ones,
\* or the single Bearer value set over them.
Authorization(rq, tok) ==
  IF tok # NoToken THEN << Bearer(tok) >> ELSE rq.authorization

\* http.NewRequest(r.Method, targetURL, r.Body): the inbound stream is the
\* outbound body; the transport closes it after the round trip, and a
\* read of a closed body fails unless it is http.NoBody.
StreamRequest(rq, st, u, tok) ==
  LET noBody == rq.contentLength = 0
  IN [req |-> [url |-> u, host |-> u.host, method |-> rq.method,
               authorization |-> Authorization(rq, tok),
               acceptEncoding |-> rq.acceptEncoding, accept |-> rq.accept,
               body |-> IF st.closed THEN Empty ELSE st.left,
               contentLength |-> IF noBody THEN 0 ELSE -1,
               bodyError |-> st.closed /\ ~noBody],
      stream |-> Stream(Empty, TRUE)]

\* spoolRequestBody + http.NewRequest: what is left of r.Body is copied to
\* a temporary file; the length is r.ContentLength unless it is unknown.
SpoolRequest(rq, st, u, tok) ==
  IF rq.method \in {"GET", "HEAD"}
  THEN [req |-> [url |-> u, host |-> u.host, method |-> rq.method,
                 authorization |-> Authorization(rq, tok),
                 acceptEncoding |-> rq.acceptEncoding, accept |-> rq.accept,
                 body |-> Empty, contentLength |-> 0, bodyError |-> FALSE],
        stream |-> st]
  ELSE LET written == Len(st.left)
           contentLength == IF rq.contentLength < 0 THEN written
                            ELSE rq.contentLength
       IN [req |-> [url |-> u, host |-> u.host, method |-> rq.method,
                    authorization |-> Authorization(rq, tok),
                    acceptEncoding |-> rq.acceptEncoding,
                    accept |-> rq.accept,
                    body |-> st.left, contentLength |-> contentLength,
                    bodyError |-> FALSE],
           stream |-> Stream(Empty, st.closed)]

\* bytes.NewReader(bodyBytes): the bytes read by the caller before the relay.
BytesRequest(rq, st, u, tok) ==
  LET body == IF rq.method \in {"GET", "HEAD"} THEN Empty ELSE rq.body
  IN [req |-> [url |-> u, host |-> u.host, method |-> rq.method,
               authorization |-> Authorization(rq, tok),
               acceptEncoding |-> rq.acceptEncoding, accept |-> rq.accept,
               body |-> body, contentLength |-> Len(body),
               bodyError |-> FALSE],
      stream |-> IF rq.method \in {"GET", "HEAD"} THEN st
                 ELSE Stream(Empty, st.closed)]

\* newReq.Header.Del("Accept-Encoding"), where the version has the line.
DelAcceptEncoding(i, req) ==
  IF DeletesAcceptEncoding(i) THEN [req EXCEPT !.acceptEncoding = << >>]
  ELSE req

\* The versions that run newReq.Host = targetHost; the others set a
\* "Host" entry in newReq.Header, which the transport does not send.
SetsHost(i) == i \in {"spool", "stream"}

\* newReq.Host = targetHost, where the version has the line.  The Host
\* that is sent is the Host field, which http.NewRequest sets to the
\* host of the URL.
SetHost(i, req) ==
  IF SetsHost(i) THEN [req EXCEPT !.host = targetHost] ELSE req

\* The outbound request of version i and what it leaves of r.Body.
NewRequest(i, rq, st, u, tok) ==
  LET out == IF i = "spool" THEN SpoolRequest(rq, st, u, tok)
             ELSE IF i = "bytes" THEN BytesRequest(rq, st, u, tok)
             ELSE StreamRequest(rq, st, u, tok)
  IN [req |-> SetHost(i, DelAcceptEncoding(i, out.req)),
      stream |-> out.stream]

\* The transport fails without an answer: the body cannot be read, or it
\* ends before the declared Content-Length.
MustFail(req) ==
  \/ req.bodyError
  \/ req.contentLength >= 0 /\ req.contentLength # Len(req.body)

\* ----------------------------------------------------------- responses
NoResp ==
  [status |-> 0, location |-> NoLocation, wwwAuth |-> NoHeader, body |-> ""]

isRedirect(statusCode) == statusCode \in {301, 302, 303, 307, 308}

Response(status, location, wwwAuth, body) ==
  [status |-> status, location |-> location, wwwAuth |-> wwwAuth, body |-> body]

\* The answers of the upstream: a 302 with every kind of Location, the
\* other redirect statuses with a Location, 300 and 304, a 401 with every
\* challenge, 200 and 500.
Responses ==
  { Response(302, l, NoHeader, "b1") : l \in Locations }
  \cup { Response(s, AbsLocation, NoHeader, "b1") : s \in {301, 303, 307, 308} }
  \cup { Response(300, RelLocation, NoHeader, "b1"),
         Response(304, NoLocation, NoHeader, "b1"),
         Response(200, NoLocation, NoHeader, "b1"),
         Response(200, NoLocation, NoHeader, "b2"),
         Response(500, NoLocation, NoHeader, "b1") }
  \cup { Response(401, NoLocation, h, "b2") : h \in Challenges }

\* ---------------------------------------------------------- dispatch
\* A request path as text: "/" and the names between the slashes.
MaxSegments == 2

\* The names a path is made of.
Names == {"v2", "auth", "production-cloudflare", "index.html"}

RECURSIVE PathText(_)
PathText(segments) ==
  IF segments = << >> THEN << >>
  ELSE <<"/", Head(segments)>> \o PathText(Tail(segments))

\* "/", "/a", "/a/", "/a/b", "/a/b/", ...
Paths ==
  { <<"/">> }
  \cup UNION { { PathText(segments), PathText(segments) \o <<"/">> } :
                segments \in UNION {[1..n -> Names] : n \in 1..MaxSegments} }

\* strings.HasPrefix
HasPrefix(text, prefix) ==
  Len(text) >= Len(prefix) /\ SubSeq(text, 1, Len(prefix)) = prefix

\* The dispatchers: handleRequest of src/README.md, handleRequest of
\* src/main.go, and the http.ServeMux set up by main of
\* src/unnamed/part_003.
Dispatchers == {"handleRequest", "handleRequestRoutes", "ServeMux"}

\* The request given to the dispatcher, and config.DisableDisguise.
DispatchInputs ==
  [dispatcher : Dispatchers, method : Methods, path : Paths,
   disableDisguise : BOOLEAN]

NoDispatchInput ==
  [dispatcher |-> "", method |-> "", path |-> << >>, disableDisguise |-> FALSE]

\* handleRequest of src/README.md: /v2/ goes to proxy.HandleProxy,
\* everything else to handleDisguise.
handleRequest(in) ==
  IF HasPrefix(in.path, <<"/", "v2", "/">>) THEN "HandleProxy"
  ELSE "handleDisguise"

\* handleRequest of src/main.go
handleRequestRoutes(in) ==
  IF HasPrefix(in.path, <<"/", "v2", "/">>) THEN "HandleRegistryRequest"
  ELSE IF HasPrefix(in.path, <<"/", "auth", "/">>) THEN "HandleAuthRequest"
  ELSE IF HasPrefix(in.path, <<"/", "production-cloudflare", "/">>)
  THEN "HandleCloudflareRequest"
  ELSE IF in.disableDisguise THEN "NotFound"
  ELSE "handleDisguise"

\* handleRoot of src/unnamed/part_003
handleRoot(in) == IF in.path = <<"/">> THEN "NotFound" ELSE "handleDisguise"

\* http.ServeMux with the patterns "/v2/", "/auth/",
\* "/production-cloudflare/" and "/": the longest pattern that is a prefix
\* of the path wins, and a path that is a pattern without its last slash
\* is answered by the mux with a redirect to the pattern.
ServeMux(in) ==
  IF HasPrefix(in.path, <<"/", "v2", "/">>) THEN "HandleRegistryRequest"
  ELSE IF HasPrefix(in.path, <<"/", "auth", "/">>) THEN "HandleAuthRequest"
  ELSE IF HasPrefix(in.path, <<"/", "production-cloudflare", "/">>)
  THEN "HandleCloudflareRequest"
  ELSE IF in.path \in {<<"/", "v2">>, <<"/", "auth">>,
                       <<"/", "production-cloudflare">>}
  THEN "RedirectHandler"
  ELSE handleRoot(in)

\* The handler the dispatcher of the input runs.
Handler(in) ==
  CASE in.dispatcher = "handleRequest" -> handleRequest(in)
    [] in.dispatcher = "handleRequestRoutes" -> handleRequestRoutes(in)
    [] OTHER -> ServeMux(in)

\* --------------------------------------------------------------- state
VARIABLES
  impl,          \* the version of the proxy package that runs
  now,           \* time.Now()
  tokenCache,    \* tokenCache.cache: cache key -> TokenInfo
  pc,            \* where the relay stands
  r,             \* the inbound request
  stream,        \* r.Body
  targetURL,     \* the targetURL argument of the running function
  token,         \* the token argument of the running function
  resp,          \* the upstream response in hand
  lastReq,       \* the upstream request issued last
  tokenReq,      \* the token-endpoint request issued last
  tokenResp,     \* the token-endpoint answer received last
  obtained,      \* the token handed to the relay last (history)
  delivered,     \* what the caller has received
  tmpFiles,      \* the temporary files of the relay (spooled bodies)
  bodies,        \* the upstream response bodies the relay holds open
  rlock,         \* tokenCache.RWMutex: the goroutines holding a read lock
  wlock,         \* tokenCache.RWMutex: the goroutines holding the write lock
  gpc,           \* where each goroutine stands in handleAuth
  gkey,          \* its cacheKey
  gtok,          \* its token (fetched, or returned)
  ginfo,         \* the TokenInfo literal it is storing
  issued,        \* the tokens the endpoint issued, by key (history)
  lastPut,       \* the TokenInfo of the last writer, by key (history)
  parseIn,       \* the challenge whose text is given to parseAuth
  parseOut,      \* what parseAuth returned: <<map>>, or << >> before the call
  dispatchIn,    \* the request and the configuration given to the dispatcher
  dispatchOut    \* the handler it ran: <<handler>>, or << >> before the call

\* The state of the calls of handleAuth that run side by side.
authVars == <<rlock, wlock, gpc, gkey, gtok, ginfo, issued, lastPut>>

vars ==
  <<impl, now, tokenCache, pc, r, stream, targetURL, token, resp, lastReq,
    tokenReq, tokenResp, obtained, delivered, tmpFiles, bodies, authVars,
    parseIn, parseOut, dispatchIn, dispatchOut>>

\* The goroutines that resolve a challenge at the same time.
Goroutines == {"g1", "g2"}

\* The zero value of TokenInfo, which a map store starts from.
ZeroInfo == [Token |-> Empty, CreateTime |-> 0, Expiry |-> 0]

\* The token-endpoint request: the arguments of fetchToken and the query
\* of the URL it builds, as query.Encode() orders it.
NoTokenReq ==
  [realm |-> Empty, service |-> Empty, scope |-> Empty, query |-> << >>]

\* A query that names the scope whether it is empty or not.
TokenQueryAlwaysScope(service, scope) ==
  << <<"scope", scope>>, <<"service", service>> >>

\* query.Set("service", service); if scope != "" { query.Set("scope", scope) }
TokenQuery(service, scope) ==
  IF scope # Empty THEN << <<"scope", scope>>, <<"service", service>> >>
  ELSE << <<"service", service>> >>

NoTokenResp ==
  [kind |-> "none", status |-> 0, json |-> FALSE, token |-> Empty,
   access_token |-> Empty, expires_in |-> 0]

\* What the caller has received: the status and headers written first,
\* the body (partial: the copy stopped before its end), and what was
\* written after the body.
NoDelivery ==
  [kind |-> "none", status |-> 0, location |-> NoLocation,
   wwwAuth |-> NoHeader, body |-> "", partial |-> FALSE, appended |-> ""]

\* http.Error(w, ..., http.StatusInternalServerError) on a fresh writer
InternalServerError ==
  [kind |-> "error", status |-> 500, location |-> NoLocation,
   wwwAuth |-> NoHeader, body |-> "error text", partial |-> FALSE,
   appended |-> ""]

\* An upstream 5xx turned into an answer of the proxy's own.
WrittenOrBadGateway(rs) ==
  IF rs.status >= 500
  THEN [kind |-> "error", status |-> 502, location |-> Empty,
        wwwAuth |-> [scheme |-> "", params |-> << >>], body |-> "error text",
        partial |-> FALSE, appended |-> ""]
  ELSE [kind |-> "response", status |-> rs.status, location |-> rs.location,
        wwwAuth |-> rs.wwwAuth, body |-> rs.body, partial |-> FALSE,
        appended |-> ""]

\* The response rs as the caller gets it, headers copied as they are.
Written(rs) ==
  [kind |-> "response", status |-> rs.status, location |-> rs.location,
   wwwAuth |-> rs.wwwAuth, body |-> rs.body, partial |-> FALSE,
   appended |-> ""]

\* The same when io.Copy stops with an error: status and headers are
\* out, the body is cut short.
Truncated(d) == [d EXCEPT !.partial = TRUE]

\* A writer that always reports a status as written.
isResponseWrittenAlways == TRUE

\* isResponseWritten: w.(interface{ Status() int }) fails for the
\* ResponseWriter of net/http, which is what the callers pass.
isResponseWritten == FALSE

\* The temporary files the running relay has made with os.CreateTemp:
\* whether it made any, whether one is still to be cleaned up by a
\* deferred cleanupSpool, and whether one was closed and left on disk
\* with no cleanup to come.
NoFiles == [created |-> FALSE, pending |-> FALSE, left |-> FALSE]

\* spoolRequestBody makes a file unless the method is GET or HEAD.
Spools(i, rq) == i = "spool" /\ rq.method \notin {"GET", "HEAD"}

\* spoolRequestBody returned the file: defer cleanupSpool(bodyReader).
Spooled == [created |-> TRUE, pending |-> TRUE, left |-> FALSE]

\* io.Copy(tmpFile, r.Body) or tmpFile.Seek failed: tmpFile.Close() and
\* the error return, before the defer.
SpoolFailed == [created |-> TRUE, pending |-> FALSE, left |-> TRUE]

\* The deferred cleanupSpool calls run when the functions of the relay
\* return: f.Close() and os.Remove(f.Name()).
cleanupSpool ==
  tmpFiles' = IF pc' \in {"done", "error", "readError", "writeError"}
              THEN [tmpFiles EXCEPT !.pending = FALSE]
              ELSE tmpFiles

\* The upstream responses whose Body is open: the one in hand, and those
\* of earlier hops whose deferred Close has not run yet.
NoBodies == [current |-> FALSE, earlier |-> FALSE]

\* defer resp.Body.Close(): client.Do hands over a response with its
\* Body open; the Close runs when the function that made the call
\* returns, so not before the hops it calls itself have returned.
deferredClose ==
  bodies' =
    IF pc' \in {"done", "error", "readError", "writeError"} THEN NoBodies
    ELSE IF pc' \in {"proxyResp", "retryResp", "registryResp"} /\ pc' # pc
    THEN [bodies EXCEPT !.current = TRUE]
    ELSE IF pc' \in {"proxyDo", "retryDo", "registryDo"} /\ pc' # pc
    THEN [current |-> FALSE, earlier |-> bodies.earlier \/ bodies.current]
    ELSE bodies

\* The deferred calls of the functions of the relay.
deferred == cleanupSpool /\ deferredClose

\* The state after construction, but for the version.
RestInit ==
  /\ now = 0
  /\ tokenCache = [k \in {} |-> 0]
  /\ pc = "idle"
  /\ r = NoInbound
  /\ stream = Stream(Empty, FALSE)
  /\ targetURL = NoURL
  /\ token = NoToken
  /\ resp = NoResp
  /\ lastReq = NoReq
  /\ tokenReq = NoTokenReq
  /\ tokenResp = NoTokenResp
  /\ obtained = NoToken
  /\ delivered = NoDelivery
  /\ tmpFiles = NoFiles
  /\ bodies = NoBodies
  /\ rlock = {}
  /\ wlock = {}
  /\ gpc = [g \in Goroutines |-> "start"]
  /\ gkey = [g \in Goroutines |-> Empty]
  /\ gtok = [g \in Goroutines |-> NoToken]
  /\ ginfo = [g \in Goroutines |-> ZeroInfo]
  /\ issued = [k \in {} |-> {}]
  /\ lastPut = [k \in {} |-> ZeroInfo]

BaseInit == impl \in Impls /\ RestInit

Init ==
  /\ BaseInit
  /\ parseIn = NoParseInput
  /\ parseOut = << >>
  /\ dispatchIn = NoDispatchInput
  /\ dispatchOut = << >>

\* ------------------------------------------------------- relay steps
\* writeResponse: headers, status and body of rs go to the caller.
\* io.Copy fails because the upstream body cannot be read to its end
\* ("readError") or because the caller cannot be written to
\* ("writeError"); writeResponse then returns the error.
writeResponse(rs) ==
  /\ \/ delivered' = Written(rs) /\ pc' = "done"
     \/ delivered' = Truncated(Written(rs)) /\ pc' \in {"readError", "writeError"}
  /\ UNCHANGED <<impl, now, tokenCache, r, stream, targetURL, token, resp,
                 lastReq, tokenReq, tokenResp, obtained>>

\* An error return before anything was written.
returnError ==
  /\ pc' = "error"
  /\ UNCHANGED <<impl, now, tokenCache, r, stream, targetURL, token, resp,
                 lastReq, tokenReq, tokenResp, obtained, delivered>>

\* HandleProxy when proxyRequest returned an error: http.Error unless
\* isResponseWritten.  On a writer whose status is out, http.Error cannot
\* change the status; its text follows the body when the caller can
\* still be written to.
HandleProxyError ==
  /\ pc \in {"error", "readError", "writeError"}
  /\ delivered' =
       IF isResponseWritten THEN delivered
       ELSE IF pc = "error" THEN InternalServerError
       ELSE IF pc = "readError" THEN [delivered EXCEPT !.appended = "error text"]
       ELSE delivered
  /\ pc' = "done"
  /\ UNCHANGED <<impl, now, tokenCache, r, stream, targetURL, token, resp,
                 lastReq, tokenReq, tokenResp, obtained>>

\* A hop that keeps the Authorization values of the hop before it.
proxyRequestDoFromLast(rq, st, u) ==
  LET out == NewRequest(impl, rq, st, u, NoToken)
  IN /\ lastReq' = [out.req EXCEPT !.authorization =
                      IF pc \in {"idle", "done"} THEN @
                      ELSE lastReq.authorization]
     /\ stream' = out.stream
     /\ targetURL' = u
     /\ token' = NoToken
     /\ resp' = NoResp
     /\ pc' = "proxyDo"

\* proxyRequest up to client.Do: the request without a proxy token.
proxyRequestDo(rq, st, u) ==
  LET out == NewRequest(impl, rq, st, u, NoToken)
  IN /\ lastReq' = out.req
     /\ stream' = out.stream
     /\ targetURL' = u
     /\ token' = NoToken
     /\ resp' = NoResp
     /\ pc' = "proxyDo"

\* retryWithToken / fetchWithToken up to client.Do: the request with
\* Authorization: Bearer tok.
retryDo(u, tok) ==
  LET out == NewRequest(impl, r, stream, u, tok)
  IN /\ lastReq' = out.req
     /\ stream' = out.stream
     /\ targetURL' = u
     /\ token' = tok
     /\ resp' = NoResp
     /\ pc' = "retryDo"

\* spoolRequestBody fails while it reads r.Body from the caller into the
\* file: proxyRequest returns the error before it builds a request.
spoolRequestBodyError(rq) ==
  /\ lastReq' = NoReq
  /\ stream' = Stream(Empty, FALSE)
  /\ targetURL' = FirstTarget(rq)
  /\ token' = NoToken
  /\ resp' = NoResp
  /\ tmpFiles' = SpoolFailed
  /\ bodies' = NoBodies
  /\ pc' = "error"

\* HandleProxy: the first target is https://targetHost with the path and
\* the raw query of r, and proxyRequest issues the first request.
HandleProxy(rq) ==
  /\ pc \in {"idle", "done"}
  /\ IsRelay(impl)
  /\ r' = rq
  /\ \/ /\ proxyRequestDo(rq, Stream(rq.body, FALSE),
                          FirstTarget(rq))
        /\ tmpFiles' = IF Spools(impl, rq) THEN Spooled ELSE NoFiles
        /\ bodies' = NoBodies
     \/ /\ Spools(impl, rq)
        /\ spoolRequestBodyError(rq)
  /\ tokenReq' = NoTokenReq
  /\ obtained' = NoToken
  /\ delivered' = NoDelivery
  /\ tokenResp' = NoTokenResp
  /\ UNCHANGED <<impl, now, tokenCache>>

\* client.Do returns a response.
clientDo(rs) ==
  /\ pc \in {"proxyDo", "retryDo", "registryDo"}
  /\ ~MustFail(lastReq)
  /\ resp' = rs
  /\ pc' = CASE pc = "proxyDo" -> "proxyResp"
             [] pc = "retryDo" -> "retryResp"
             [] OTHER -> "registryResp"
  /\ UNCHANGED <<impl, now, tokenCache, r, stream, targetURL, token, lastReq,
                 tokenReq, tokenResp, obtained, delivered>>

\* client.Do returns an error (in HandleRegistryRequest the handler
\* itself answers with http.Error 500).
clientDoError ==
  /\ pc \in {"proxyDo", "retryDo", "registryDo"}
  /\ returnError

\* fetchToken up to client.Get: GET realm?service=..[&scope=..]
fetchTokenDo(h) ==
  LET authParams == parseAuth(h)
  IN /\ tokenReq' = [realm |-> Get(authParams, <<"realm">>),
                     service |-> Get(authParams, <<"service">>),
                     scope |-> Get(authParams, <<"scope">>),
                     query |-> TokenQuery(Get(authParams, <<"service">>),
                                          Get(authParams, <<"scope">>))]
     /\ pc' = "tokenDo"
     /\ UNCHANGED <<impl, now, tokenCache, r, stream, targetURL, token, resp,
                    lastReq, tokenResp, obtained, delivered>>

\* The cache lookup of handleAuth: the entry exists and, where entries
\* expire, time.Now().Before(info.Expiry).
CacheHit(key) ==
  /\ HasCache(impl)
  /\ key \in DOMAIN tokenCache
  /\ HasExpiry(impl) => now < tokenCache[key].Expiry

\* handleAuth (and the 401 branch of proxyRequest where there is no
\* cache): pass the 401 through, retry with the cached token, or fetch.
handleAuth ==
  IF Incomplete(resp.wwwAuth) THEN writeResponse(resp)
  ELSE IF CacheHit(KeyOf(resp.wwwAuth))
  THEN /\ retryDo(targetURL, tokenCache[KeyOf(resp.wwwAuth)].Token)
       /\ obtained' = tokenCache[KeyOf(resp.wwwAuth)].Token
       /\ UNCHANGED <<impl, now, tokenCache, r, tokenReq, tokenResp,
                      delivered>>
  ELSE fetchTokenDo(resp.wwwAuth)

\* A handleRedirect that has no test for an empty Location.
handleRedirectAlways ==
  IF ParseFails(resp.location) THEN returnError
  ELSE /\ proxyRequestDo(r, stream,
            ResolveReference(targetURL, Parse(resp.location)))
       /\ UNCHANGED <<impl, now, tokenCache, r, tokenReq, tokenResp,
                      obtained, delivered>>

\* handleRedirect: an empty Location passes the response through, an
\* unparseable one is an error, otherwise the next hop is requested by
\* proxyRequest.
handleRedirect ==
  IF resp.location = NoLocation THEN writeResponse(resp)
  ELSE IF ParseFails(resp.location) THEN returnError
  ELSE /\ proxyRequestDo(r, stream,
            ResolveReference(targetURL, Parse(resp.location)))
       /\ UNCHANGED <<impl, now, tokenCache, r, tokenReq, tokenResp,
                      obtained, delivered>>

\* proxyRequest after client.Do
proxyRequest ==
  /\ pc = "proxyResp"
  /\ IF resp.status = 401 THEN handleAuth
     ELSE IF isRedirect(resp.status) THEN handleRedirect
     ELSE writeResponse(resp)

\* An entry that expires the moment it is written.
TokenInfoNoTTL(tok, t) == [Token |-> tok, CreateTime |-> t, Expiry |-> t]

\* The TokenInfo written for a token fetched at time t.
TokenInfo(tok, t) ==
  [Token |-> tok, CreateTime |-> t,
   Expiry |-> IF HasExpiry(impl) THEN t + tokenTTL ELSE -1]

\* A store that starts from an empty map.
PutAlone(cache, key, info) == [k \in {key} |-> info]

\* tokenCache.cache[cacheKey] = TokenInfo{...}
Put(cache, key, info) ==
  [k \in (DOMAIN cache) \cup {key} |-> IF k = key THEN info ELSE cache[k]]

\* client.Get returns the answer of the token endpoint, or an error.
clientGet(tr) ==
  /\ pc = "tokenDo"
  /\ tokenResp' = tr
  /\ pc' = "tokenResp"
  /\ UNCHANGED <<impl, now, tokenCache, r, stream, targetURL, token, resp,
                 lastReq, tokenReq, obtained, delivered>>

\* fetchToken returns: on an error the 401 in hand is passed through;
\* otherwise the token is cached (where there is a cache) and the request
\* is retried with it.
fetchTokenReturns ==
  /\ pc = "tokenResp"
  /\ IF fetchToken(tokenResp) = NoToken
     THEN writeResponse(resp)
     ELSE /\ tokenCache' =
               IF HasCache(impl)
               THEN Put(tokenCache, KeyOf(resp.wwwAuth),
                        TokenInfo(fetchToken(tokenResp), now))
               ELSE tokenCache
          /\ retryDo(targetURL, fetchToken(tokenResp))
          /\ obtained' = fetchToken(tokenResp)
          /\ UNCHANGED <<impl, now, r, tokenReq, tokenResp, delivered>>

\* retryWithToken after client.Do (the versions with a cache): a redirect
\* goes to handleRedirect, everything else to the caller.
retryWithToken ==
  /\ pc = "retryResp"
  /\ HasCache(impl)
  /\ IF isRedirect(resp.status) THEN handleRedirect
     ELSE writeResponse(resp)

\* fetchWithToken after client.Do (the versions without a cache): a
\* redirect is followed with the token, a 401 goes back to proxyRequest.
fetchWithToken ==
  /\ pc = "retryResp"
  /\ ~HasCache(impl)
  /\ IF isRedirect(resp.status) /\ resp.location # NoLocation
     THEN IF ParseFails(resp.location) THEN returnError
          ELSE /\ retryDo(ResolveReference(targetURL, Parse(resp.location)),
                          token)
               /\ UNCHANGED <<impl, now, tokenCache, r, tokenReq, tokenResp,
                              obtained, delivered>>
     ELSE IF resp.status = 401
     THEN /\ proxyRequestDo(r, stream, targetURL)
          /\ UNCHANGED <<impl, now, tokenCache, r, tokenReq, tokenResp,
                         obtained, delivered>>
     ELSE writeResponse(resp)

\* ------------------------------------------- HandleRegistryRequest
\* "https://" + currentDomain + "/auth/token"
ProxyRealm(currentDomain) == <<"https://">> \o currentDomain \o <<"/auth/token">>

\* The challenge handleAuthChallenge writes: the realm of the proxy, the
\* fixed service, and the scope of the upstream challenge when it has one.
modifiedAuthHeader(h, currentDomain) ==
  LET scope == Get(parseAuth(h), <<"scope">>)
      head == << <<<<"realm">>, ProxyRealm(currentDomain)>>,
                 <<<<"service">>, proxyService>> >>
  IN Challenge("Bearer",
       IF scope # Empty THEN Append(head, <<<<"scope">>, scope>>) ELSE head)

\* HandleRegistryRequest up to client.Do: one request to the registry
\* with the inbound stream as its body.
HandleRegistryRequest(rq) ==
  /\ pc \in {"idle", "done"}
  /\ impl = "registry"
  /\ r' = rq
  /\ LET out == StreamRequest(rq, Stream(rq.body, FALSE),
                              FirstTarget(rq),
                              NoToken)
     IN /\ lastReq' = DelAcceptEncoding(impl, out.req)
        /\ stream' = out.stream
  /\ targetURL' = FirstTarget(rq)
  /\ resp' = NoResp
  /\ delivered' = NoDelivery
  /\ tmpFiles' = NoFiles
  /\ bodies' = NoBodies
  /\ pc' = "registryDo"
  /\ UNCHANGED <<impl, now, tokenCache, token, tokenReq, tokenResp, obtained>>

\* handleAuthChallenge: the 401 goes to the caller with every
\* WWW-Authenticate value replaced by the modified challenge.
handleAuthChallenge ==
  /\ LET d == [Written(resp) EXCEPT
                 !.wwwAuth = IF resp.wwwAuth = NoHeader THEN NoHeader
                             ELSE modifiedAuthHeader(resp.wwwAuth, r.host)]
     IN delivered' \in {d, Truncated(d)}
  /\ pc' = "done"
  /\ UNCHANGED <<impl, now, tokenCache, r, stream, targetURL, token, resp,
                 lastReq, tokenReq, tokenResp, obtained>>

\* HandleRegistryRequest after client.Do: a 401 goes to
\* handleAuthChallenge; any other answer is written status first, so the
\* headers added after WriteHeader do not reach the caller.  A failure of
\* io.Copy is logged and the handler returns.
registryResponse ==
  /\ pc = "registryResp"
  /\ IF resp.status = 401 THEN handleAuthChallenge
     ELSE /\ LET d == [Written(resp) EXCEPT !.location = NoLocation,
                                             !.wwwAuth = NoHeader]
             IN delivered' \in {d, Truncated(d)}
          /\ pc' = "done"
          /\ UNCHANGED <<impl, now, tokenCache, r, stream, targetURL, token,
                         resp, lastReq, tokenReq, tokenResp, obtained>>

\* Time passes while no relay runs and while the token endpoint is
\* awaited; only the versions with a cache read the clock.
Tick ==
  /\ HasCache(impl)
  /\ now < MaxTime
  /\ pc \in {"idle", "done", "tokenDo"}
  /\ now' = now + 1
  /\ UNCHANGED <<impl, tokenCache, pc, r, stream, targetURL, token, resp,
                 lastReq, tokenReq, tokenResp, obtained, delivered, tmpFiles,
                 bodies>>

\* What a step of one relay leaves alone.
others == <<authVars, parseIn, parseOut, dispatchIn, dispatchOut>>

RelayStep ==
  \/ proxyRequest /\ deferred /\ UNCHANGED others
  \/ retryWithToken /\ deferred /\ UNCHANGED others
  \/ fetchWithToken /\ deferred /\ UNCHANGED others
  \/ \E rs \in Responses : clientDo(rs) /\ deferred /\ UNCHANGED others
  \/ clientDoError /\ deferred /\ UNCHANGED others
  \/ \E tr \in TokenResponses : clientGet(tr) /\ deferred /\ UNCHANGED others
  \/ fetchTokenReturns /\ deferred /\ UNCHANGED others
  \/ registryResponse /\ deferred /\ UNCHANGED others
  \/ HandleProxyError /\ deferred /\ UNCHANGED others

Next ==
  \/ \E rq \in Inbounds : HandleProxy(rq) /\ UNCHANGED others
  \/ \E rq \in Inbounds : HandleRegistryRequest(rq) /\ UNCHANGED others
  \/ RelayStep
  \/ Tick /\ UNCHANGED others

Spec == Init /\ [][Next]_vars

\* A relay that can take a step takes one: its goroutine runs, and every
\* call it waits for ends with an answer or an error.
FairSpec == Spec /\ WF_vars(RelayStep)

\* ............................................ calls that may not end
\* The versions whose http.Client has a Timeout (30 * time.Second).
HasTimeout(i) == i = "ttl"

\* The token-endpoint call ended without an answer.
TransportError ==
  [kind |-> "error", status |-> 0, json |-> FALSE, token |-> Empty,
   access_token |-> Empty, expires_in |-> 0]

\* client.Timeout runs out: client.Do or client.Get returns an error.
Timeout ==
  /\ HasTimeout(impl)
  /\ clientDoError \/ clientGet(TransportError)
  /\ deferred
  /\ UNCHANGED others

\* The steps the relay takes by itself, between its calls.
LocalStep ==
  /\ \/ proxyRequest
     \/ retryWithToken
     \/ fetchWithToken
     \/ fetchTokenReturns
     \/ registryResponse
     \/ HandleProxyError
  /\ deferred
  /\ UNCHANGED others

\* The upstream and the token endpoint answer or not, as they please:
\* the relay takes its own steps, and a call ends for certain only where
\* the client has a Timeout.
HungSpec == Spec /\ WF_vars(LocalStep) /\ WF_vars(Timeout)

\* --------------------------------------- handleAuth, side by side
\* The calls of handleAuth of src/Dockerfile 185-227 that run at the same
\* time in different goroutines, one step per lock operation, map access
\* and network call.  The relays around them are left out: a call ends
\* when handleAuth returns.
relayVars ==
  <<impl, pc, r, stream, targetURL, token, resp, lastReq, tokenReq, tokenResp,
    obtained, delivered, tmpFiles, bodies, parseIn, parseOut, dispatchIn,
    dispatchOut>>

\* The challenges the concurrent calls resolve.
AuthChallenges == {h \in Challenges : h # NoHeader /\ ~Incomplete(h)}

\* A Lock that does not wait for the other holders.
CanLockAlways(g) == TRUE

\* RWMutex: RLock waits while a writer holds the lock.
CanRLock(g) == wlock = {}

\* RWMutex: Lock waits while anyone holds the lock.
CanLock(g) == rlock = {} /\ wlock = {}

\* A return on the hit path that leaves the read lock held.
KeepRLock(g) == rlock

\* tokenCache.RUnlock()
RUnlock(g) == rlock \ {g}

\* handleAuth up to tokenCache.RLock(): parseAuth, the parameter test,
\* the cache key, and the read lock.
authRLock(g, h) ==
  /\ gpc[g] = "start"
  /\ CanRLock(g)
  /\ rlock' = rlock \cup {g}
  /\ gkey' = [gkey EXCEPT ![g] = KeyOf(h)]
  /\ gpc' = [gpc EXCEPT ![g] = "rlocked"]
  /\ UNCHANGED <<wlock, gtok, ginfo, issued, lastPut, now, tokenCache, relayVars>>

\* The lookup under the read lock: a live entry is returned, after
\* RUnlock; otherwise RUnlock and on to fetchToken.
authLookup(g) ==
  /\ gpc[g] = "rlocked"
  /\ rlock' = RUnlock(g)
  /\ IF gkey[g] \in DOMAIN tokenCache /\ now < tokenCache[gkey[g]].Expiry
     THEN /\ gtok' = [gtok EXCEPT ![g] = tokenCache[gkey[g]].Token]
          /\ gpc' = [gpc EXCEPT ![g] = "done"]
     ELSE /\ gpc' = [gpc EXCEPT ![g] = "fetch"]
          /\ gtok' = gtok
  /\ UNCHANGED <<wlock, gkey, ginfo, issued, lastPut, now, tokenCache, relayVars>>

\* fetchToken returns: an error ends handleAuth, a token goes on to the
\* cache update.
authFetched(g, tr) ==
  /\ gpc[g] = "fetch"
  /\ IF fetchToken(tr) = NoToken
     THEN /\ gpc' = [gpc EXCEPT ![g] = "done"]
          /\ UNCHANGED <<gtok, issued>>
     ELSE /\ gpc' = [gpc EXCEPT ![g] = "fetched"]
          /\ gtok' = [gtok EXCEPT ![g] = fetchToken(tr)]
          /\ issued' =
               [k \in (DOMAIN issued) \cup {gkey[g]} |->
                  IF k = gkey[g]
                  THEN (IF k \in DOMAIN issued THEN issued[k] ELSE {})
                         \cup {fetchToken(tr)}
                  ELSE issued[k]]
  /\ UNCHANGED <<rlock, wlock, gkey, ginfo, lastPut, now, tokenCache, relayVars>>

\* tokenCache.Lock(), and the TokenInfo literal is evaluated.
authLock(g) ==
  /\ gpc[g] = "fetched"
  /\ CanLock(g)
  /\ wlock' = wlock \cup {g}
  /\ ginfo' = [ginfo EXCEPT ![g] = TokenInfo(gtok[g], now)]
  /\ gpc' = [gpc EXCEPT ![g] = "locked"]
  /\ UNCHANGED <<rlock, gkey, gtok, issued, lastPut, now, tokenCache, relayVars>>

\* The store tokenCache.cache[cacheKey] = TokenInfo{...} is several
\* words wide: the Token goes first,
authPutToken(g) ==
  /\ gpc[g] = "locked"
  /\ tokenCache' =
       [k \in (DOMAIN tokenCache) \cup {gkey[g]} |->
          IF k = gkey[g]
          THEN [(IF k \in DOMAIN tokenCache THEN tokenCache[k] ELSE ZeroInfo)
                  EXCEPT !.Token = ginfo[g].Token]
          ELSE tokenCache[k]]
  /\ lastPut' =
       [k \in (DOMAIN lastPut) \cup {gkey[g]} |->
          IF k = gkey[g] THEN ginfo[g] ELSE lastPut[k]]
  /\ gpc' = [gpc EXCEPT ![g] = "storing"]
  /\ UNCHANGED <<rlock, wlock, gkey, gtok, ginfo, issued, now, relayVars>>

\* then the times.
authPutTimes(g) ==
  /\ gpc[g] = "storing"
  /\ tokenCache' =
       [tokenCache EXCEPT ![gkey[g]] =
          [@ EXCEPT !.CreateTime = ginfo[g].CreateTime,
                    !.Expiry = ginfo[g].Expiry]]
  /\ gpc' = [gpc EXCEPT ![g] = "stored"]
  /\ UNCHANGED <<rlock, wlock, gkey, gtok, ginfo, issued, lastPut, now, relayVars>>

\* tokenCache.Unlock() and return token, nil
authUnlock(g) ==
  /\ gpc[g] = "stored"
  /\ wlock' = wlock \ {g}
  /\ gpc' = [gpc EXCEPT ![g] = "done"]
  /\ UNCHANGED <<rlock, gkey, gtok, ginfo, issued, lastPut, now, tokenCache, relayVars>>

AuthNext ==
  \/ \E g \in Goroutines, h \in AuthChallenges : authRLock(g, h)
  \/ \E g \in Goroutines : authLookup(g)
  \/ \E g \in Goroutines, tr \in TokenResponses : authFetched(g, tr)
  \/ \E g \in Goroutines : authLock(g)
  \/ \E g \in Goroutines : authPutToken(g)
  \/ \E g \in Goroutines : authPutTimes(g)
  \/ \E g \in Goroutines : authUnlock(g)
  \/ Tick /\ UNCHANGED others

\* The version of src/Dockerfile, with concurrent calls of handleAuth.
AuthInit == Init /\ impl = "ttl"

AuthSpec == AuthInit /\ [][AuthNext]_vars

\* ------------------------------------------------ parseAuth alone
\* parseAuth applied to the text of a challenge.
parseAuthCall ==
  /\ parseOut = << >>
  /\ parseOut' = << parseAuthText(ChallengeText(parseIn)) >>
  /\ UNCHANGED <<impl, now, tokenCache, pc, r, stream, targetURL, token, resp,
                 lastReq, tokenReq, tokenResp, obtained, delivered, tmpFiles,
                 bodies, authVars, parseIn, dispatchIn, dispatchOut>>

ParseInit ==
  /\ BaseInit
  /\ impl = "ttl"
  /\ parseIn \in ParseInputs
  /\ parseOut = << >>
  /\ dispatchIn = NoDispatchInput
  /\ dispatchOut = << >>

ParseSpec == ParseInit /\ [][parseAuthCall]_vars

\* ------------------------------------------------ the dispatcher alone
\* The server hands the request to its dispatcher.
ServeHTTP ==
  /\ dispatchOut = << >>
  /\ dispatchOut' = << Handler(dispatchIn) >>
  /\ UNCHANGED <<impl, now, tokenCache, pc, r, stream, targetURL, token, resp,
                 lastReq, tokenReq, tokenResp, obtained, delivered, tmpFiles,
                 bodies, authVars, parseIn, parseOut, dispatchIn>>

DispatchInit ==
  /\ BaseInit
  /\ impl = "ttl"
  /\ parseIn = NoParseInput
  /\ parseOut = << >>
  /\ dispatchIn \in DispatchInputs
  /\ dispatchOut = << >>

DispatchSpec == DispatchInit /\ [][ServeHTTP]_vars

\* --------------------------------------------- HandleAuthRequest
\* HandleAuthRequest of src/unnamed/part_000 and handleAuthRequest of
\* src/main.go 630-680 relay /auth/... to the token service.
AuthImpls == {"registry", "routes"}

authHost == <<"auth.docker.io">>

\* Paths under /auth/ as the caller sends them: "/" and the names between
\* the slashes, with an escaped space and with an escaped slash.
TokenPath == <<"/", "auth", "/", "token">>

SpaceAuthPath == <<"/", "auth", "/", "my", "%20", "token">>

SlashAuthPath == <<"/", "auth", "/", "v1", "%2F", "token">>

\* The raw query of a token request.
TokenRawQuery ==
  <<"service=registry.docker.io&scope=repository:library/alpine:pull">>

AuthInbounds ==
  { [method |-> "GET", escapedPath |-> TokenPath, rawQuery |-> TokenRawQuery,
     body |-> Empty, contentLength |-> 0,
     host |-> <<"hubp.example">>, authorization |-> << >>,
     acceptEncoding |-> << <<"gzip">> >>, accept |-> << >>],
    [method |-> "GET", escapedPath |-> SpaceAuthPath, rawQuery |-> Empty,
     body |-> Empty, contentLength |-> 0,
     host |-> <<"hubp.example">>, authorization |-> << <<"Basic ", "u">> >>,
     acceptEncoding |-> << >>, accept |-> << >>],
    [method |-> "HEAD", escapedPath |-> SlashAuthPath,
     rawQuery |-> TokenRawQuery, body |-> Empty, contentLength |-> 0,
     host |-> <<"hubp.example">>, authorization |-> << >>,
     acceptEncoding |-> << >>, accept |-> << >>],
    [method |-> "POST", escapedPath |-> TokenPath, rawQuery |-> Empty,
     body |-> <<1, 2>>, contentLength |-> 2,
     host |-> <<"mirror.example">>, authorization |-> << >>,
     acceptEncoding |-> << >>, accept |-> << >>] }

\* strings.TrimPrefix(text, prefix)
TrimPrefixOf(text, prefix) ==
  IF HasPrefix(text, prefix) THEN SubSeq(text, Len(prefix) + 1, Len(text))
  ELSE text

\* strings.Join(parts, sep)
RECURSIVE Join(_, _)
Join(parts, sep) ==
  IF parts = << >> THEN << >>
  ELSE IF Len(parts) = 1 THEN Head(parts)
  ELSE Head(parts) \o <<sep>> \o Join(Tail(parts), sep)

\* targetURL of the auth handler: https://auth.docker.io, "/" and what
\* follows /auth/ in r.URL.Path (strings.TrimPrefix in part_000,
\* strings.Split, pathParts[2:] and strings.Join in main.go), with
\* r.URL.RawQuery.
authTarget(i, rq) ==
  LET path == Unescape(rq.escapedPath)
      pathParts == Split(path, "/", << >>)
      rest == IF i = "registry"
              THEN TrimPrefixOf(path, <<"/", "auth", "/">>)
              ELSE Join(SubSeq(pathParts, 3, Len(pathParts)), "/")
  IN URL(<<"https">>, authHost, EscapedPath(<<"/">> \o rest), rq.rawQuery)

\* The versions whose http.Client follows redirects by itself (the
\* CheckRedirect of src/main.go 337-345 returns nil).
FollowsRedirects(i) == i = "routes"

\* redirectBehavior of net/http: the client follows a redirect that has
\* a Location, unless it is a 307 or 308 of a request whose body cannot
\* be sent again.
ShouldRedirect(req, rs) ==
  /\ isRedirect(rs.status)
  /\ rs.location # NoLocation
  /\ rs.status \in {307, 308} => req.contentLength = 0

\* The request the client sends next by itself: to the resolved
\* Location; after 301, 302 and 303 without a body and with GET unless
\* the method was GET or HEAD.
Redirected(req, rs) ==
  IF rs.status \in {307, 308}
  THEN [req EXCEPT !.url = ResolveReference(req.url, Parse(rs.location)),
                   !.host = ResolveReference(req.url, Parse(rs.location)).host]
  ELSE [req EXCEPT !.url = ResolveReference(req.url, Parse(rs.location)),
                   !.host = ResolveReference(req.url, Parse(rs.location)).host,
                   !.method = IF req.method \in {"GET", "HEAD"}
                              THEN req.method ELSE "GET",
                   !.body = Empty, !.contentLength = 0]

\* The handler up to client.Do: one request to the token service with
\* the inbound stream as its body; part_000 deletes Accept-Encoding.
HandleAuthRequest(rq) ==
  /\ pc \in {"idle", "done"}
  /\ r' = rq
  /\ LET out == StreamRequest(rq, Stream(rq.body, FALSE),
                              authTarget(impl, rq), NoToken)
     IN /\ lastReq' = IF impl = "registry"
                      THEN [out.req EXCEPT !.acceptEncoding = << >>]
                      ELSE out.req
        /\ stream' = out.stream
  /\ targetURL' = authTarget(impl, rq)
  /\ resp' = NoResp
  /\ delivered' = NoDelivery
  /\ pc' = "authDo"
  /\ UNCHANGED <<impl, now, tokenCache, token, tokenReq, tokenResp, obtained,
                 tmpFiles, bodies>>

\* An answer arrives: the client follows it by itself, or client.Do
\* returns it.
authClientDo(rs) ==
  /\ pc = "authDo"
  /\ ~MustFail(lastReq)
  /\ IF FollowsRedirects(impl) /\ ShouldRedirect(lastReq, rs)
     THEN /\ ~ParseFails(rs.location)
          /\ lastReq' = Redirected(lastReq, rs)
          /\ UNCHANGED <<pc, resp>>
     ELSE /\ resp' = rs
          /\ pc' = "authResp"
          /\ UNCHANGED lastReq
  /\ UNCHANGED <<impl, now, tokenCache, r, stream, targetURL, token, tokenReq,
                 tokenResp, obtained, delivered, tmpFiles, bodies>>

\* client.Do returns an error: http.Error 500 and return.
authClientDoError ==
  /\ pc = "authDo"
  /\ delivered' = InternalServerError
  /\ pc' = "done"
  /\ UNCHANGED <<impl, now, tokenCache, r, stream, targetURL, token, resp,
                 lastReq, tokenReq, tokenResp, obtained, tmpFiles, bodies>>

\* The handler after client.Do: headers, status and body of the answer
\* go to the caller; a failure of io.Copy is logged.
authResponse ==
  /\ pc = "authResp"
  /\ delivered' \in {Written(resp), Truncated(Written(resp))}
  /\ pc' = "done"
  /\ UNCHANGED <<impl, now, tokenCache, r, stream, targetURL, token, resp,
                 lastReq, tokenReq, tokenResp, obtained, tmpFiles, bodies>>

AuthRouteNext ==
  \/ \E rq \in AuthInbounds : HandleAuthRequest(rq) /\ UNCHANGED others
  \/ \E rs \in Responses : authClientDo(rs) /\ UNCHANGED others
  \/ authClientDoError /\ UNCHANGED others
  \/ authResponse /\ UNCHANGED others

AuthRouteInit ==
  /\ impl \in AuthImpls
  /\ RestInit
  /\ parseIn = NoParseInput
  /\ parseOut = << >>
  /\ dispatchIn = NoDispatchInput
  /\ dispatchOut = << >>

AuthRouteSpec == AuthRouteInit /\ [][AuthRouteNext]_vars

\* ============================================================== claims
\* The relay has an upstream request in flight or its answer in hand.
InFlight == pc \in {"proxyDo", "retryDo", "registryDo"}

Answered == pc \in {"proxyResp", "retryResp", "registryResp"}

\* The step issues an upstream request.
IssuesUpstream == pc' \in {"proxyDo", "retryDo", "registryDo"} /\ pc' # pc

\* The step issues a token-endpoint request.
IssuesToken == pc' = "tokenDo" /\ pc # "tokenDo"

\* The step hands rs to the caller as it came from the upstream: its
\* status, its headers and its body, or its body cut short when the copy
\* fails.
Delivers(rs) ==
  \/ pc' = "done" /\ delivered' = Written(rs)
  \/ pc' \in {"readError", "writeError"} /\ delivered' = Truncated(Written(rs))

\* The value of key in a challenge, read off its key="value" segments.
Param(h, key) ==
  IF \E n \in 1..Len(h.params) : Len(h.params[n]) = 2 /\ h.params[n][1] = key
  THEN LET n == CHOOSE m \in 1..Len(h.params) :
                  Len(h.params[m]) = 2 /\ h.params[m][1] = key
       IN h.params[n][2]
  ELSE Empty

\* What the token cache promises for an entry: put(key, token, ttl)
\* stores expiresAt = now + ttl.
ExpiresAt(info) == info.CreateTime + tokenTTL

\* The relay holds a 401 whose Bearer challenge names a realm and a
\* service.
ValidChallengeInHand ==
  /\ pc = "proxyResp"
  /\ resp.status = 401
  /\ resp.wwwAuth.scheme = "Bearer"
  /\ Param(resp.wwwAuth, <<"realm">>) # Empty
  /\ Param(resp.wwwAuth, <<"service">>) # Empty

\* The cache key of the challenge in hand, from its three values.
KeyInHand ==
  cacheKey(Param(resp.wwwAuth, <<"realm">>), Param(resp.wwwAuth, <<"service">>),
           Param(resp.wwwAuth, <<"scope">>))

\* C1: once a request that carries the proxy's bearer token is answered
\* with 401, that 401 goes to the caller and the relay issues nothing more
\* (retryWithToken of src/Dockerfile, fetchWithToken of src/proxy/proxy.go).
C1_Authenticated401IsTerminal ==
  [][(impl \in {"ttl", "bytes"} /\ pc = "retryResp" /\ resp.status = 401) =>
       (Delivers(resp) /\ ~IssuesUpstream /\ ~IssuesToken)]_vars

\* C2: once the relay has obtained a token, every upstream request it
\* issues carries Authorization: Bearer <that token>, redirect hops
\* included (src/Dockerfile, src/proxy/proxy.go).
C2_TokenOnEveryLaterRequest ==
  (impl \in {"ttl", "bytes"} /\ obtained # NoToken /\ (InFlight \/ Answered)) =>
     lastReq.authorization = << Bearer(obtained) >>

\* C3: for a method other than GET and HEAD every upstream request
\* carries the bytes of the inbound body, and a declared content length
\* is the number of bytes sent (src/go.mod, src/Dockerfile).
C3_BodyReplayed ==
  (impl \in {"spool", "ttl"} /\ r.method \notin {"GET", "HEAD"}
     /\ (InFlight \/ Answered)) =>
       /\ lastReq.body = r.body
       /\ ~lastReq.bodyError
       /\ lastReq.contentLength \in {-1, Len(lastReq.body)}

\* C4: a challenge whose triple has an entry in the cache that has not
\* expired is answered from the cache: the retry carries the cached token
\* and no token-endpoint request is issued.
C4_HitWithinTTL ==
  [][(ValidChallengeInHand /\ KeyInHand \in DOMAIN tokenCache
        /\ now < ExpiresAt(tokenCache[KeyInHand])) =>
       /\ ~IssuesToken
       /\ pc' = "retryDo"
       /\ token' = tokenCache[KeyInHand].Token
       /\ lastReq'.authorization = << Bearer(tokenCache[KeyInHand].Token) >>
       /\ lastReq'.url = targetURL]_vars

\* A relay retries with a token although it asked the token endpoint
\* nothing: the token came from the cache.
C4_Witness ==
  /\ pc = "retryDo"
  /\ tokenReq = NoTokenReq
  /\ token \in Tokens
  /\ \E k \in DOMAIN tokenCache :
       tokenCache[k].Token = token /\ now < ExpiresAt(tokenCache[k])

\* C5: in the versions with a cache, a challenge whose triple has no
\* entry, or an entry whose expiry has been reached, is a miss: the token
\* endpoint is asked (handleAuth of src/Dockerfile and of src/main.go).
C5_NoStaleToken ==
  [][(ValidChallengeInHand /\ HasCache(impl)
        /\ (KeyInHand \in DOMAIN tokenCache =>
              now >= ExpiresAt(tokenCache[KeyInHand]))) =>
       IssuesToken]_vars

\* C6: a 401 whose challenge lacks realm or service goes to the caller as
\* it is; neither the token endpoint nor the upstream is asked again.
C6_IncompleteChallengePassesThrough ==
  [][(pc = "proxyResp" /\ resp.status = 401
        /\ (Param(resp.wwwAuth, <<"realm">>) = Empty
              \/ Param(resp.wwwAuth, <<"service">>) = Empty)) =>
       (Delivers(resp) /\ ~IssuesToken /\ ~IssuesUpstream
          /\ tokenReq' = tokenReq /\ lastReq' = lastReq)]_vars

\* The caller has the 401 of a challenge without service, and the token
\* endpoint was never asked.
C6_Witness ==
  /\ pc = "done"
  /\ IsRelay(impl)
  /\ delivered = Written(resp)
  /\ resp.status = 401
  /\ Param(resp.wwwAuth, <<"realm">>) # Empty
  /\ Param(resp.wwwAuth, <<"service">>) = Empty
  /\ tokenReq = NoTokenReq

\* The token endpoint answered, and the answer holds no usable token.
UnusableTokenAnswer ==
  /\ tokenResp.kind = "answer"
  /\ \/ tokenResp.status # 200
     \/ tokenResp.token = Empty /\ tokenResp.access_token = Empty

\* C7: when the token endpoint answers with a status other than 200, or
\* with 200 and no token, the 401 in hand goes to the caller: no retry,
\* no proxy error.
C7_TokenFailurePassesThrough ==
  [][(pc = "tokenResp" /\ UnusableTokenAnswer) =>
       (Delivers(resp) /\ resp.status = 401 /\ ~IssuesUpstream
          /\ lastReq' = lastReq /\ obtained' = obtained)]_vars

\* The caller has the 401 after the token endpoint answered 403.
C7_Witness ==
  /\ pc = "done"
  /\ tokenResp.kind = "answer"
  /\ tokenResp.status = 403
  /\ delivered = Written(resp)
  /\ delivered.status = 401
  /\ lastReq.authorization = r.authorization

\* The answer in hand is a redirect with a Location that parses.
RedirectInHand ==
  /\ impl \in {"ttl", "registry"}
  /\ Answered
  /\ resp.status \in {301, 302, 303, 307, 308}
  /\ resp.location \notin {NoLocation, BadLocation}

\* C8: a 301, 302, 303, 307 or 308 with a parseable non-empty Location
\* never goes to the caller, the next request goes to the resolved URL;
\* a 300 or 304 is not followed (proxyRequest of src/Dockerfile,
\* HandleRegistryRequest of src/unnamed/part_000).
C8_RedirectFollowed ==
  [][/\ RedirectInHand =>
          /\ IssuesUpstream
          /\ lastReq'.url = ResolveReference(targetURL, Parse(resp.location))
          /\ delivered' = delivered
     /\ (impl \in {"ttl", "registry"} /\ Answered
           /\ resp.status \in {300, 304}) =>
          (~IssuesUpstream /\ delivered'.status = resp.status)]_vars

\* C9: a relay that has started ends, with a response or with an error,
\* whatever the upstream and the token endpoint answer (src/Dockerfile).
C9_RelayEnds == (impl = "ttl" /\ pc \notin {"idle", "done"}) ~> (pc = "done")

\* C10: a WWW-Authenticate that reaches the caller is the upstream
\* challenge with the realm of the proxy and with the service and the
\* scope of the upstream (handleAuthChallenge of src/unnamed/part_000,
\* writeResponse of src/Dockerfile).
C10_ChallengeRewritten ==
  (impl \in {"ttl", "registry"} /\ pc = "done" /\ delivered.kind = "response"
     /\ delivered.wwwAuth # NoHeader) =>
     /\ Param(delivered.wwwAuth, <<"realm">>) = ProxyRealm(r.host)
     /\ Param(delivered.wwwAuth, <<"service">>) = Param(resp.wwwAuth, <<"service">>)
     /\ Param(delivered.wwwAuth, <<"scope">>) = Param(resp.wwwAuth, <<"scope">>)

\* C11: no upstream request carries an Accept-Encoding header, whatever
\* the inbound request carried (proxyRequest and retryWithToken of
\* src/Dockerfile, proxyRequest of src/unnamed/part_001).
C11_NoAcceptEncoding ==
  (impl \in {"ttl", "stream"} /\ (InFlight \/ Answered)) =>
     lastReq.acceptEncoding = << >>

\* C12: a request issued with a token has the single Authorization value
\* Bearer <token>, whatever Authorization values came in, and every
\* upstream request has the inbound Accept values in their order.
C12_SingleAuthorization ==
  /\ (pc \in {"retryDo", "retryResp"}) =>
        /\ token = obtained
        /\ token # NoToken
        /\ lastReq.authorization = << Bearer(token) >>
  /\ (InFlight \/ Answered) => lastReq.accept = r.accept

\* A retry is in flight for a request that came in with two
\* Authorization values and two Accept values.
C12_Witness ==
  /\ pc = "retryDo"
  /\ Len(r.authorization) = 2
  /\ Len(r.accept) = 2
  /\ lastReq.authorization = << Bearer(obtained) >>
  /\ lastReq.accept = r.accept

\* The upstream call ended with a transport error: no answer in hand.
TransportFailed == pc = "error" /\ resp = NoResp

\* C13: when an upstream call fails at transport level the relay issues
\* no further upstream or token request and the caller receives a 500.
C13_TransportFailureIs500 ==
  [][/\ (InFlight /\ pc' # pc /\ ~(pc' \in {"proxyResp", "retryResp", "registryResp"}))
          => (pc' = "error" /\ resp' = NoResp /\ delivered' = NoDelivery)
     /\ TransportFailed =>
          /\ pc' = "done"
          /\ delivered'.status = 500
          /\ delivered'.kind = "error"
          /\ lastReq' = lastReq
          /\ tokenReq' = tokenReq
          /\ ~IssuesUpstream /\ ~IssuesToken]_vars

\* The caller has the 500 of a failed upstream call.
C13_Witness ==
  /\ pc = "done"
  /\ resp = NoResp
  /\ lastReq # NoReq
  /\ delivered = InternalServerError

\* C14: a transport failure on the way to the token endpoint ends the
\* relay with a 5xx for the caller, not with the upstream 401
\* (fetchToken and handleAuthAndRetry of src/Dockerfile).
C14_TokenTransportFailureIsFatal ==
  (impl = "ttl" /\ pc = "done" /\ tokenResp.kind = "error") =>
     (delivered.kind = "error" /\ delivered.status >= 500)

\* C15: once a status has gone to the caller, a failure of the body copy
\* adds nothing to what the caller has received and starts no upstream
\* request (writeResponse, HandleProxy, isResponseWritten of
\* src/Dockerfile).
C15_NothingAfterWriteFailure ==
  [][(impl = "ttl" /\ pc \in {"readError", "writeError"}) =>
       (delivered' = delivered /\ ~IssuesUpstream /\ ~IssuesToken)]_vars

\* C16: what the caller receives as a response has the status and, when
\* the copy succeeds, the body of the upstream response received last;
\* a status that is neither 401 nor a redirect goes to the caller as it
\* is, 4xx and 5xx included.
C16_LastResponseDelivered ==
  [][/\ (pc' = "done" /\ delivered' # delivered /\ delivered'.kind = "response") =>
          /\ delivered'.status = resp.status
          /\ ~delivered'.partial => delivered'.body = resp.body
     /\ (Answered /\ resp.status # 401 /\ ~isRedirect(resp.status)) =>
          /\ pc' \in {"done", "readError", "writeError"}
          /\ delivered'.kind = "response"
          /\ delivered'.status = resp.status
          /\ ~delivered'.partial => delivered'.body = resp.body]_vars

\* The caller has the 500 of the hop that followed a redirect.
C16_Witness ==
  /\ pc = "done"
  /\ lastReq.url.host = cdnHost
  /\ resp.status = 500
  /\ delivered = Written(resp)

\* The goroutines that hold the token-cache lock, read or write.
Holders == rlock \cup wlock

\* C17: no goroutine holds the token-cache lock while its token-endpoint
\* call is in progress or after handleAuth has returned (when the
\* upstream calls are made); so a goroutine that waits for a token never
\* keeps another from taking the lock.
C17_NoLockAcrossCalls ==
  /\ \A g \in Goroutines :
        gpc[g] \in {"start", "fetch", "fetched", "done"} => g \notin Holders
  /\ \A g, h \in Goroutines :
        (g # h /\ gpc[g] = "fetch" /\ gpc[h] \in {"start", "fetched"}) =>
           (CanRLock(h) /\ CanLock(h))

\* One goroutine waits for the token endpoint while the other holds the
\* write lock for another key.
C17_Witness ==
  \E g, h \in Goroutines :
     /\ gpc[g] = "fetch"
     /\ gpc[h] = "storing"
     /\ gkey[g] # gkey[h]
     /\ wlock = {h}

\* C18: every call of handleAuth returns a token the endpoint issued for
\* its key, and while nobody writes, the entry of a key is the TokenInfo
\* of the writer that stored last: its token with its expiry.
C18_LastWriterWins ==
  /\ \A g \in Goroutines :
        (gpc[g] = "done" /\ gtok[g] # NoToken) =>
           (gkey[g] \in DOMAIN issued /\ gtok[g] \in issued[gkey[g]])
  /\ wlock = {} =>
        /\ DOMAIN tokenCache = DOMAIN lastPut
        /\ \A k \in DOMAIN tokenCache : tokenCache[k] = lastPut[k]

\* Both goroutines have fetched and stored for the same key, with
\* different tokens at different times.
C18_Witness ==
  /\ \A g \in Goroutines : gpc[g] = "done"
  /\ gkey["g1"] = gkey["g2"]
  /\ ginfo["g1"].Token # ginfo["g2"].Token
  /\ ginfo["g1"].Expiry # ginfo["g2"].Expiry
  /\ ginfo["g1"].Token # NoToken /\ ginfo["g2"].Token # NoToken
  /\ tokenCache[gkey["g1"]] \in {ginfo["g1"], ginfo["g2"]}

\* C19: the text Bearer realm="R",service="S"[,scope="C"], with R, S and
\* C free of double quotes, parses to realm = R, service = S and
\* scope = C, and a segment without '=' changes nothing (parseAuth of
\* src/Dockerfile).
C19_ParseExact ==
  parseOut # << >> =>
     /\ Get(parseOut[1], <<"realm">>) = parseIn.realm
     /\ Get(parseOut[1], <<"service">>) = parseIn.service
     /\ Get(parseOut[1], <<"scope">>) = parseIn.scope

\* The lookup for the challenge in hand finds nothing to return.
MissInHand ==
  \/ ~HasCache(impl)
  \/ KeyInHand \notin DOMAIN tokenCache
  \/ HasExpiry(impl) /\ now >= ExpiresAt(tokenCache[KeyInHand])

\* C20: for a valid challenge and a miss the relay issues one GET to the
\* realm with service=<service> and, iff the scope is not empty,
\* scope=<scope>; of a 200 answer it takes the token field, else the
\* access_token field, and with neither the resolution fails.
C20_TokenRequestAndExtraction ==
  [][/\ (ValidChallengeInHand /\ MissInHand) =>
          /\ IssuesToken
          /\ tokenReq'.realm = Param(resp.wwwAuth, <<"realm">>)
          /\ \E i \in 1..Len(tokenReq'.query) :
                tokenReq'.query[i] = <<"service", Param(resp.wwwAuth, <<"service">>)>>
          /\ \A i \in 1..Len(tokenReq'.query) :
                \/ tokenReq'.query[i] = <<"service", Param(resp.wwwAuth, <<"service">>)>>
                \/ /\ Param(resp.wwwAuth, <<"scope">>) # Empty
                   /\ tokenReq'.query[i] = <<"scope", Param(resp.wwwAuth, <<"scope">>)>>
          /\ Param(resp.wwwAuth, <<"scope">>) # Empty =>
                \E i \in 1..Len(tokenReq'.query) :
                   tokenReq'.query[i] = <<"scope", Param(resp.wwwAuth, <<"scope">>)>>
     /\ (pc \in {"tokenDo", "tokenResp"}) => (~IssuesToken /\ tokenReq' = tokenReq)
     /\ (pc = "tokenResp" /\ tokenResp.kind = "answer" /\ tokenResp.status = 200) =>
          IF tokenResp.token # Empty
          THEN pc' = "retryDo" /\ token' = tokenResp.token
          ELSE IF tokenResp.access_token # Empty
          THEN pc' = "retryDo" /\ token' = tokenResp.access_token
          ELSE ~IssuesUpstream /\ Delivers(resp)]_vars

\* A retry carries the access_token of an answer without token, asked
\* for with a query that has no scope.
C20_Witness ==
  /\ pc = "retryDo"
  /\ tokenReq.realm = Realm1
  /\ tokenReq.query = << <<"service", Service2>> >>
  /\ tokenResp.status = 200
  /\ tokenResp.token = Empty
  /\ tokenResp.access_token # Empty
  /\ token = tokenResp.access_token

\* A Location that is an absolute URL: it starts with a scheme.
Absolute(location) == Len(location) >= 2 /\ location[2] = ":"

\* A Location without a scheme that names a host: it starts with "//".
NamesHost(location) == location # << >> /\ Head(location) = "//"

\* The answer in hand is a redirect the relay follows.
FollowedRedirectInHand ==
  /\ IsRelay(impl)
  /\ Answered
  /\ isRedirect(resp.status)
  /\ resp.location \notin {NoLocation, BadLocation}

\* C21: the next target of a redirect hop is the Location itself when the
\* Location is an absolute URL; when it has no scheme but names a host, the
\* scheme of the current hop's target followed by the Location; otherwise
\* the scheme and host of the current hop's target (not of the registry
\* URL the relay started from) with the path and query of the Location.
C21_RedirectTarget ==
  [][FollowedRedirectInHand =>
       /\ IssuesUpstream
       /\ targetURL' = lastReq'.url
       /\ IF Absolute(resp.location)
          THEN String(lastReq'.url) = resp.location
          ELSE IF NamesHost(resp.location)
          THEN String(lastReq'.url) = targetURL.scheme \o <<":">> \o resp.location
          ELSE /\ lastReq'.url.scheme = targetURL.scheme
               /\ lastReq'.url.host = targetURL.host
               /\ String(URL(Empty, Empty, lastReq'.url.path, lastReq'.url.query))
                    = resp.location]_vars

\* C21 as stated: every Location that is not an absolute URL is resolved
\* to the scheme and host of the current hop's target (handleRedirect of
\* src/Dockerfile).
C21_RelativeKeepsHost ==
  [][(impl = "ttl" /\ FollowedRedirectInHand /\ ~Absolute(resp.location)) =>
       /\ lastReq'.url.scheme = targetURL.scheme
       /\ lastReq'.url.host = targetURL.host]_vars

\* A hop is under way to the host of an earlier redirect, with the path
\* and query of a Location that named no host.
C21_Witness ==
  /\ InFlight
  /\ lastReq.url = URL(<<"https">>, cdnHost, <<"/v2/blob">>, <<"redirect=1">>)
  /\ targetURL = lastReq.url

\* C22: when a relay has returned, every temporary file it made for the
\* request body is closed and removed, whatever the exit path, the
\* failure of the spool copy included (spoolRequestBody, cleanupSpool and
\* proxyRequest of src/go.mod).
C22_SpoolFilesRemoved ==
  (impl = "spool" /\ pc = "done") => (~tmpFiles.pending /\ ~tmpFiles.left)

\* C23: the entry written for a fetched token expires expires_in after
\* the write when the answer of the token endpoint states one, and
\* tokenTTL after the write only when it states none (fetchToken,
\* handleAuth and tokenTTL of src/Dockerfile).
C23_StatedExpiryPreferred ==
  [][(impl = "ttl" /\ pc = "tokenResp" /\ pc' = "retryDo") =>
       /\ KeyInHand \in DOMAIN tokenCache'
       /\ tokenCache'[KeyInHand].Expiry =
            now + (IF tokenResp.expires_in > 0 THEN tokenResp.expires_in
                   ELSE tokenTTL)]_vars

\* The handlers that relay to the registry host.
RegistryHandlers == {"HandleProxy", "HandleRegistryRequest"}

\* The path starts with one of the prefixes the dispatcher routes to the
\* proxy package.
MatchesProxyPrefix(in) ==
  \/ HasPrefix(in.path, <<"/", "v2", "/">>)
  \/ /\ in.dispatcher # "handleRequest"
     /\ \/ HasPrefix(in.path, <<"/", "auth", "/">>)
        \/ HasPrefix(in.path, <<"/", "production-cloudflare", "/">>)

\* C24: a request whose path starts with /v2/ goes to the handler that
\* relays to the registry, whatever its method, and a request whose path
\* matches none of the proxy prefixes goes to the disguise handler
\* (handleRequest of src/main.go and src/README.md, main and handleRoot of
\* src/unnamed/part_003).
C24_Dispatch ==
  dispatchOut # << >> =>
     /\ HasPrefix(dispatchIn.path, <<"/", "v2", "/">>) =>
          dispatchOut[1] \in RegistryHandlers
     /\ ~MatchesProxyPrefix(dispatchIn) => dispatchOut[1] = "handleDisguise"

\* The relay waits for the upstream or for the token endpoint.
Waiting == pc \in {"proxyDo", "retryDo", "registryDo", "tokenDo"}

\* C25: when the upstream or the token endpoint never answers, the call
\* still ends, with a timeout error, so the relay does not wait forever
\* (client of src/Dockerfile and of src/proxy/proxy.go).
C25_CallsEnd == (impl \in {"ttl", "bytes"} /\ Waiting) ~> ~Waiting

\* The key of the token request under way, from what was asked for.
KeyAsked == cacheKey(tokenReq.realm, tokenReq.service, tokenReq.scope)

\* C26: after a successful token fetch for key K the cache has for K the
\* entry with the fetched token and expiry = time of the write + tokenTTL,
\* whatever it had for K before, and its entries for the other keys are
\* the same; nothing else changes the cache.
C26_PutReplacesOneEntry ==
  [][/\ (impl = "ttl" /\ pc = "tokenResp" /\ pc' = "retryDo") =>
          /\ DOMAIN tokenCache' = (DOMAIN tokenCache) \cup {KeyAsked}
          /\ tokenCache'[KeyAsked] =
               [Token |-> IF tokenResp.token # Empty THEN tokenResp.token
                          ELSE tokenResp.access_token,
                CreateTime |-> now, Expiry |-> now + tokenTTL]
          /\ \A k \in (DOMAIN tokenCache) \ {KeyAsked} :
                tokenCache'[k] = tokenCache[k]
     /\ (impl = "ttl" /\ tokenCache' # tokenCache) =>
          (pc = "tokenResp" /\ pc' = "retryDo")]_vars

\* A token was fetched and stored for one key while the cache holds an
\* older entry for another key.
C26_Witness ==
  /\ impl = "ttl"
  /\ pc = "retryDo"
  /\ tokenReq # NoTokenReq
  /\ KeyAsked \in DOMAIN tokenCache
  /\ tokenCache[KeyAsked].Token = token
  /\ tokenCache[KeyAsked].CreateTime = now
  /\ \E k \in DOMAIN tokenCache :
        k # KeyAsked /\ tokenCache[k].CreateTime < now

\* The relay turns to the authenticated retry of the request that was
\* answered with the 401 in hand.
TurnsToRetry ==
  /\ pc \in {"proxyResp", "tokenResp"}
  /\ resp.status = 401
  /\ pc' = "retryDo"

\* C27: the authenticated retry has the method and the target URL of the
\* request that was answered with 401, on a redirect hop as on the first
\* attempt, and the first attempt goes to https://<upstream host> with the
\* path and the query of the inbound request as they came
\* (handleAuthAndRetry, retryWithToken and HandleProxy of src/Dockerfile).
C27_RetrySameTarget ==
  [][/\ (impl = "ttl" /\ TurnsToRetry) =>
          /\ lastReq'.method = lastReq.method
          /\ lastReq'.method = r.method
          /\ lastReq'.url = lastReq.url
     /\ (impl = "ttl" /\ pc \in {"idle", "done"} /\ pc' = "proxyDo") =>
          /\ lastReq'.method = r'.method
          /\ String(lastReq'.url) =
               <<"https", ":", "//">> \o targetHost \o r'.escapedPath
                 \o (IF r'.rawQuery # Empty THEN <<"?">> \o r'.rawQuery
                     ELSE << >>)]_vars

\* C28: when the relay issues the request of a next hop, the responses
\* of its earlier hops are closed, so it never holds more than one
\* upstream response open (proxyRequest and retryWithToken of
\* src/Dockerfile).
C28_OneOpenResponse ==
  (impl = "ttl" /\ (InFlight \/ Answered)) => ~bodies.earlier

\* C29: for an inbound GET or HEAD no upstream request carries a body,
\* on any hop, and no temporary file is made (spoolRequestBody of
\* src/go.mod, proxyRequest of src/proxy/proxy.go and of src/Dockerfile).
C29_NoBodyForGetAndHead ==
  (impl \in {"spool", "bytes", "ttl"} /\ r.method \in {"GET", "HEAD"}) =>
     /\ (InFlight \/ Answered) =>
          (lastReq.body = Empty /\ lastReq.contentLength = 0)
     /\ ~tmpFiles.created

\* The answer in hand is a redirect whose Location does not parse.
BadRedirectInHand ==
  /\ resp.status \in {301, 302, 303, 307, 308}
  /\ resp.location = BadLocation

\* C30: a redirect whose Location cannot be parsed as a URL is not passed
\* through and not followed: the relay returns an error with nothing
\* written, and the caller receives a 500.
C30_BadLocationIs500 ==
  [][/\ (IsRelay(impl) /\ Answered /\ BadRedirectInHand) =>
          /\ pc' = "error"
          /\ delivered' = NoDelivery
          /\ lastReq' = lastReq
          /\ ~IssuesUpstream /\ ~IssuesToken
     /\ (IsRelay(impl) /\ pc = "error" /\ BadRedirectInHand) =>
          /\ pc' = "done"
          /\ delivered'.kind = "error"
          /\ delivered'.status = 500
          /\ lastReq' = lastReq
          /\ ~IssuesUpstream /\ ~IssuesToken]_vars

\* The caller has the 500 of a redirect whose Location did not parse,
\* received on the authenticated retry.
C30_Witness ==
  /\ pc = "done"
  /\ BadRedirectInHand
  /\ token # NoToken
  /\ delivered = InternalServerError

\* C31: whatever is delivered, the headers of the upstream response
\* received last are set on the writer of the caller before the status is
\* written, so the caller receives every one of them
\* (HandleRegistryRequest of src/unnamed/part_000, writeResponse of
\* src/Dockerfile).
C31_HeadersBeforeStatus ==
  (impl \in {"ttl", "registry"} /\ pc = "done" /\ delivered.kind = "response"
     /\ resp.status # 401) =>
     /\ delivered.status = resp.status
     /\ delivered.location = resp.location

\* C32: the headers of the inbound request are the same before and after
\* every step of a relay, and the headers of every hop are made from
\* them: the inbound Accept values, no Accept-Encoding, and as
\* Authorization the inbound values or the single Bearer value of the
\* token the hop is given, never the values of the hop before
\* (proxyRequest, retryWithToken and copyHeaders of src/Dockerfile).
C32_InboundHeadersKept ==
  [][/\ (pc \notin {"idle", "done"}) => r' = r
     /\ (impl = "ttl" /\ IssuesUpstream) =>
          /\ lastReq'.accept = r'.accept
          /\ lastReq'.acceptEncoding = << >>
          /\ lastReq'.authorization =
               IF pc' = "retryDo" THEN << Bearer(token') >>
               ELSE r'.authorization]_vars

\* A redirect hop that follows an authenticated retry is under way with
\* the Authorization values of the caller.
C32_Witness ==
  /\ impl = "ttl"
  /\ pc = "proxyDo"
  /\ obtained # NoToken
  /\ lastReq.url.host = cdnHost
  /\ r.authorization # << >>
  /\ lastReq.authorization = r.authorization

\* The relay holds a 401 whose challenge names a realm and a service.
ChallengeInHand ==
  /\ pc = "proxyResp"
  /\ resp.status = 401
  /\ Param(resp.wwwAuth, <<"realm">>) # Empty
  /\ Param(resp.wwwAuth, <<"service">>) # Empty

\* The token endpoint answered 200 with the token tok.
Fetched(tok) ==
  /\ pc = "tokenResp"
  /\ tokenResp.kind = "answer"
  /\ tokenResp.status = 200
  /\ tok # NoToken
  /\ tok \in {tokenResp.token, tokenResp.access_token}

\* C33: a relay issues a call only when none of its calls is under way;
\* it asks the token endpoint only with the 401 of a challenge that names
\* realm and service in hand; and it issues a request with its own
\* Authorization value only when the cache or a successful fetch of the
\* same relay has just given it the token (proxyRequest,
\* handleAuthAndRetry and retryWithToken of src/Dockerfile).
C33_HopsInSequence ==
  [][impl = "ttl" =>
       /\ (IssuesUpstream \/ IssuesToken) => ~Waiting
       /\ IssuesToken => ChallengeInHand
       /\ (pc' = "retryDo" /\ pc' # pc) =>
            /\ lastReq'.authorization = << Bearer(token') >>
            /\ obtained' = token'
            /\ \/ /\ ChallengeInHand
                  /\ KeyInHand \in DOMAIN tokenCache
                  /\ token' = tokenCache[KeyInHand].Token
               \/ Fetched(token')
       /\ (IssuesUpstream /\ pc' # "retryDo") =>
            lastReq'.authorization = r'.authorization]_vars

\* The retry is under way with the token the endpoint has just answered
\* with, for a caller that sent Authorization values of its own.
C33_Witness ==
  /\ impl = "ttl"
  /\ pc = "retryDo"
  /\ tokenReq # NoTokenReq
  /\ tokenResp.status = 200
  /\ token = fetchToken(tokenResp)
  /\ r.authorization # << >>
  /\ lastReq.authorization = << Bearer(token) >>

\* What follows /auth/ in the path the caller sent.
AfterAuth(rq) == SubSeq(rq.escapedPath, 4, Len(rq.escapedPath))

\* C34: a request to /auth/<p>?<q> goes with its method to
\* https://auth.docker.io/<p>?<q>, and the answer of the token service
\* goes back to the caller with its status, headers and body
\* (HandleAuthRequest of src/unnamed/part_000, handleAuthRequest of
\* src/main.go).
C34_AuthForwarded ==
  [][/\ (pc \in {"idle", "done"} /\ pc' = "authDo") =>
          /\ lastReq'.method = r'.method
          /\ String(lastReq'.url) =
               <<"https", ":", "//">> \o authHost \o <<"/">> \o AfterAuth(r')
                 \o (IF r'.rawQuery # Empty THEN <<"?">> \o r'.rawQuery
                     ELSE << >>)
     /\ (pc = "authDo" /\ pc' = "authDo") => lastReq' = lastReq
     /\ (pc = "authResp") =>
          (pc' = "done" /\ delivered' \in
             {Written(resp), Truncated(Written(resp))})]_vars

\* The authorization context of a challenge: its realm, service and scope.
Triple(h) ==
  << Param(h, <<"realm">>), Param(h, <<"service">>), Param(h, <<"scope">>) >>

\* C35: the entry written for a fetched token has a key that no
\* challenge with another (realm, service, scope) has, so the token is
\* returned from the cache for its own authorization context alone
\* (handleAuth of src/Dockerfile and of src/main.go).
C35_KeysApart ==
  [][(HasCache(impl) /\ pc = "tokenResp" /\ pc' = "retryDo") =>
       \A h \in Challenges :
          (~Incomplete(h) /\ KeyOf(h) = KeyAsked) =>
             Triple(h) = <<tokenReq.realm, tokenReq.service, tokenReq.scope>>]_vars

\* fetchToken returns an error: no answer, a status other than 200, a
\* body that does not decode, or a body without token and access_token.
FetchFailed ==
  /\ pc = "tokenResp"
  /\ \/ tokenResp.kind = "error"
     \/ tokenResp.status # 200
     \/ ~tokenResp.json
     \/ tokenResp.token = Empty /\ tokenResp.access_token = Empty

\* C36: a resolution that fails leaves the token cache as it was when it
\* started: the cache is the same after the test of the challenge, while
\* the token endpoint is awaited, and after an error return of fetchToken
\* (handleAuth and fetchToken of src/Dockerfile).
C36_FailureKeepsCache ==
  [][impl = "ttl" =>
       /\ (pc = "proxyResp" /\ resp.status = 401) => tokenCache' = tokenCache
       /\ pc = "tokenDo" => tokenCache' = tokenCache
       /\ FetchFailed =>
            /\ tokenCache' = tokenCache
            /\ ~IssuesUpstream
            /\ obtained' = obtained]_vars

\* A resolution has failed with a 403 of the token endpoint while the
\* cache holds the entry of an earlier one.
C36_Witness ==
  /\ impl = "ttl"
  /\ pc = "done"
  /\ tokenResp.kind = "answer"
  /\ tokenResp.status = 403
  /\ tokenResp.token # Empty
  /\ delivered.status = 401
  /\ DOMAIN tokenCache # {}
  /\ KeyAsked \notin DOMAIN tokenCache

\* C37: every entry of the token cache holds a token of the endpoint,
\* never the empty one; an entry changes only by the token of a 200
\* answer to the request made for its key; and a retry goes out with a
\* token that is not empty (handleAuth and fetchToken of src/Dockerfile,
\* proxyRequest of src/proxy/proxy.go).
C37_CachedTokensIssued ==
  /\ [](\A k \in DOMAIN tokenCache : tokenCache[k].Token \in Tokens)
  /\ []((impl \in {"ttl", "bytes"} /\ pc \in {"retryDo", "retryResp"}) =>
          (token \in Tokens /\ lastReq.authorization = << Bearer(token) >>))
  /\ [][(impl = "ttl" /\ tokenCache' # tokenCache) =>
          /\ Fetched(token')
          /\ tokenCache'[KeyAsked].Token = token'
          /\ \A k \in DOMAIN tokenCache' :
                k # KeyAsked => (k \in DOMAIN tokenCache
                                   /\ tokenCache'[k] = tokenCache[k])]_vars

\* The cache holds a token field and an access_token field of two
\* answers, and the second is on its way in a retry.
C37_Witness ==
  /\ impl = "ttl"
  /\ pc = "retryDo"
  /\ token = <<"t2">>
  /\ tokenResp.access_token = token
  /\ \E k \in DOMAIN tokenCache : tokenCache[k].Token = <<"t1">>
  /\ \E k \in DOMAIN tokenCache : tokenCache[k].Token = <<"t2">>

\* The answer in hand has a redirect status and no Location.
BareRedirectInHand ==
  /\ Answered
  /\ resp.status \in {301, 302, 303, 307, 308}
  /\ resp.location = NoLocation

\* C38: an answer with a redirect status and no Location ends the relay:
\* it goes to the caller with its status, headers and body, and no
\* upstream or token request follows (handleRedirect of src/Dockerfile,
\* proxyRequest of src/proxy/proxy.go).
C38_BareRedirectIsTerminal ==
  [][(IsRelay(impl) /\ BareRedirectInHand) =>
       /\ Delivers(resp)
       /\ lastReq' = lastReq
       /\ ~IssuesUpstream /\ ~IssuesToken]_vars

\* The caller has the 302 without Location that answered the
\* authenticated retry.
C38_Witness ==
  /\ IsRelay(impl)
  /\ pc = "done"
  /\ token # NoToken
  /\ resp.status = 302
  /\ resp.location = NoLocation
  /\ delivered = Written(resp)

\* C39: every upstream request is sent with the Host of the URL it goes
\* to, the hop to another host that follows a redirect included
\* (proxyRequest and fetchWithToken of src/go.mod, proxyRequest of
\* src/Dockerfile).
C39_HostOfTarget ==
  (impl \in {"spool", "ttl"} /\ (InFlight \/ Answered)) =>
     lastReq.host = lastReq.url.host

\* C40: a 401 without WWW-Authenticate, or with a challenge of another
\* scheme than Bearer, whatever its parameters, goes to the caller; the
\* token endpoint is not asked and the request is not retried (parseAuth
\* and handleAuth of src/Dockerfile).
C40_OnlyBearerResolved ==
  [][(impl = "ttl" /\ pc = "proxyResp" /\ resp.status = 401
        /\ resp.wwwAuth.scheme # "Bearer") =>
       (Delivers(resp) /\ ~IssuesToken /\ ~IssuesUpstream)]_vars

====
